---- MODULE Spec2Model ----
(***************************************************************************)
(* Authentication and session lifecycle of vybe-server:                    *)
(*   src/src/modules/auth/auth.service.ts      (AuthService)               *)
(*   src/src/shared/middleware/auth.middleware.ts (authenticate)           *)
(*   src/src/shared/utils/response.ts          (jwt helpers, l.149-202)    *)
(*   src/unnamed/part_008                      (hashToken, code generator) *)
(*                                                                         *)
(* Every handler is an async function; each `await` on the durable store   *)
(* (prisma) or on the fast store (redis) is one atomic step of the calling *)
(* process, and the synchronous code before it belongs to that step.       *)
(* Requests are served by the processes in `procs`; a process that is idle *)
(* takes the next call.  Time is the wall clock in seconds (`now`).        *)
(***************************************************************************)
EXTENDS Naturals, Sequences, FiniteSets

VARIABLES
  now,        \* wall clock, seconds
  sessions,   \* durable store, table userSession: id -> record
  cache,      \* fast store, keys session:<id>: id -> [userId, exp]
  nextId,     \* number of userSession rows inserted so far (id / createdAt order)
  issued,     \* history: every {userId, sessionId, iat} of a pair returned to a client
  pc,         \* per process: the await it is suspended at ("idle": none)
  loc,        \* per process: the locals of the running handler
  ret,        \* per process: what its last finished call returned
  retired,    \* history: refresh tokens a successful rotation has replaced
  accounts,   \* durable store, table user: id (1..n) -> record
  codes,      \* fast store, keys verification:<phone>: phone -> [code, exp]
  attempts,   \* fast store, keys verification:attempts:<phone>
  lastSent,   \* history: per phone the code last stored, when, and whether used
  procs,      \* the processes that serve requests (fixed by Init)
  config,     \* the environment settings read at start-up (fixed by Init)
  rl,         \* fast store, sorted sets rl:<prefix>:<url>:<ip> of the rate guard
  listings,   \* durable store, table listing: id (1..n) -> [sellerId, status]
  offers,     \* durable store, table offer: id (1..n) -> record
  budget      \* events (calls, key losses) the environment may still cause

phoneVars == <<accounts, codes, attempts, lastSent>>

marketVars == <<listings, offers>>

vars == <<now, sessions, cache, nextId, issued, retired, pc, loc, ret, procs, budget,
          phoneVars, config, rl, marketVars>>

----------------------------------------------------------------------------
(* Bounds of the model and configuration of the program.                   *)

\* config.JWT_REFRESH_EXPIRATION, in seconds (an environment setting)
RefreshExpSec == 2
\* clock values explored in the session runs: one refresh lifetime, so that
\* sessions reach their expiry and no request outlives the session it serves
MaxClock == RefreshExpSec
\* config.JWT_ACCESS_EXPIRATION, in seconds (an environment setting)
AccessExpSec == 1
\* sessions of account 1 that exist when the run starts (passive devices)
Preloaded == 4
\* calls made in a run with two requests in flight at a time
CallsConc == 2
\* calls made in a run with one request at a time
CallsSeq == 3
\* createSession calls made in a run that only logs in, two at a time
CallsCap == 2

\* sign-in calls in a run with two requests in flight at a time
CallsId == 2
\* sign-in calls in a run with one request at a time
CallsIdSeq == 3
\* events in a run that presents tokens of any kind, one request at a time
CallsKinds == 3
\* calls in a run in which the durable store can fail, one request at a time
CallsFail == 2
\* ... in the specification of fast-store failures
CallsCacheFail == 2
\* events in a run of logins, revocations and gate checks, one request at a time
CallsGate == 3
\* events (requests, pauses) in a run in which a code request can be abandoned
CallsSendFail == 4
\* events (requests, pauses) in a run that only requests codes, one at a time
CallsSendSeq == 7
\* calls (revocations, checks of the three gates) in a run, one at a time
CallsGates == 3
\* calls (logins, rotations, revocations) in a run over two accounts, one at a time
CallsScope == 3
\* calls of the offer workflow in a run with two requests in flight at a time
CallsOffers == 3
\* calls of the offer workflow in a run with one request at a time
CallsOffersSeq == 4
\* admission checks in a run with two checks in flight at a time
CallsGuardConc == 4
\* events (admission checks, pauses) in a run of the guard with short pauses
CallsGuardSlide == 7
\* seconds of a short pause between two admission checks
ShortPause == 2
\* events (admission checks, pauses) in a run of the rate guard
CallsGuard == 5
\* events (requests, pauses) in a run that only requests codes
CallsSend == 7
\* events in a run of the phone path with two requests in flight at a time
CallsPhoneConc == 3
\* events in a run of the phone path with one request at a time
CallsPhoneSeq == 4

\* auth.service.ts:368  `activeSessions.length > 5`, slice(5)
MaxSessionsPerUser == 5
\* auth.service.ts:21  redis.set(key, code, 'EX', 300)
CodeTtl == 300
\* auth.service.ts:27  redis.expire(attemptsKey, 3600)
AttemptsTtl == 3600
\* auth.service.ts:30  `attempts > 5`
MaxSendAttempts == 5
\* rate-limit.middleware.ts:84  rateLimiters.sms: max 3
SmsMax == 3
\* rate-limit.middleware.ts:84  rateLimiters.sms: windowSeconds 300
SmsWindow == 300

\* generateVerificationCode draws one of the 6-digit codes; two stand for all
Codes == {"111111", "222222"}
\* account 1 owns p1; p3 belongs to nobody yet
Phones == {"p1", "p3"}

\* `sub` claims of Google ID tokens: g1 is known to the server, g2 is not
GoogleSubs == {"g1", "g2"}
\* `sub` claims of Apple identity tokens
AppleSubs == {"a1"}
\* a payload without an `email` claim, and the null of the email column
NoEmail == ""
\* the claim "email": "" : the empty string, falsy for the handler (l.137)
\* and an ordinary value of the unique column (l.160, l.216)
EmptyEmail == "<empty string>"
\* `email` claims
EmailHints == {NoEmail, EmptyEmail, "e1", "e2"}
\* a federated token as the handlers read it: does it split into three parts
\* whose second decodes to JSON (wellFormed), is the decoded payload an
\* object or null, and the payload's sub and email
Malformed == [wellFormed |-> FALSE, payload |-> "none", sub |-> "", email |-> NoEmail]
\* three parts, the payload is the JSON text `null`: JSON.parse succeeds
NullPayload == [wellFormed |-> TRUE, payload |-> "null", sub |-> "", email |-> NoEmail]
GoogleTokens ==
  {[wellFormed |-> TRUE, payload |-> "object", sub |-> g, email |-> e] :
      g \in GoogleSubs, e \in EmailHints}
    \cup {Malformed, NullPayload}
AppleTokens ==
  {[wellFormed |-> TRUE, payload |-> "object", sub |-> a, email |-> e] :
      a \in AppleSubs, e \in EmailHints}
    \cup {Malformed, NullPayload}

AllProcs == {1, 2}
IPs == {"ip1"}

\* envSchema (cors.ts:32-33): each secret is any string of 32 characters or
\* more; nothing relates the two.  Two values stand for all.
Secrets == {"secret-A", "secret-B"}
AdmissibleConfigs == [accessSecret : Secrets, refreshSecret : Secrets]
\* a deployment that gives the two settings different values
DisjointSecrets == [accessSecret |-> "secret-A", refreshSecret |-> "secret-B"]

JWT_ACCESS_SECRET == config.accessSecret
JWT_REFRESH_SECRET == config.refreshSecret

----------------------------------------------------------------------------
(* TokenCodec: jwt.sign / jwt.verify (HS256) and hashToken (sha256).       *)

\* jwt.sign(payload, secret, {expiresIn}) at clock t: the token is the
\* signed claims; iat is the clock in whole seconds, exp = iat + expiresIn.
Sign(userId, sessionId, secret, expiresIn, t) ==
  [userId |-> userId, sessionId |-> sessionId,
   iat |-> t, exp |-> t + expiresIn, sig |-> secret]

generateAccessToken(userId, sessionId, t) ==
  Sign(userId, sessionId, JWT_ACCESS_SECRET, AccessExpSec, t)

generateRefreshToken(userId, sessionId, t) ==
  Sign(userId, sessionId, JWT_REFRESH_SECRET, RefreshExpSec, t)

\* (mutation) the expiry of the token is not looked at
JwtVerifyAnyAge(tok, secret, t) == tok.sig = secret

\* jwt.verify: the signature must be the secret's and the token unexpired
\* (jsonwebtoken rejects when clockTimestamp >= exp).
JwtVerify(tok, secret, t) == tok.sig = secret /\ t < tok.exp

verifyAccessToken(tok, t) == JwtVerify(tok, JWT_ACCESS_SECRET, t)

verifyRefreshToken(tok, t) == JwtVerify(tok, JWT_REFRESH_SECRET, t)

\* sha256 hex digest of the token string: a one-way tag of the token,
\* never equal to the placeholder '' written by createSession.
hashToken(tok) == <<tok>>

EmptyHash == <<>>

NoTok == [userId |-> 0, sessionId |-> 0, iat |-> 0, exp |-> 0, sig |-> ""]

\* the tokens clients can hold: one pair per issuance
RefreshTokenOf(i) == generateRefreshToken(i.userId, i.sessionId, i.iat)
AccessTokenOf(i) == generateAccessToken(i.userId, i.sessionId, i.iat)

----------------------------------------------------------------------------
(* The two stores.                                                         *)

SessionIds == DOMAIN sessions

SessionsOf(u) == {s \in SessionIds : sessions[s].userId = u}

\* prisma.userSession.create: a new row, id and createdAt from the store
DbInsert(id, row) ==
  [s \in SessionIds \cup {id} |-> IF s = id THEN row ELSE sessions[s]]

\* (mutation) the delete is not carried out
DbDeleteSkipped(ids) == sessions

\* prisma.userSession.deleteMany({where: {id: {in: ids}}}) and friends
DbDelete(ids) == [s \in SessionIds \ ids |-> sessions[s]]

\* redis.exists(`session:${id}`): the key is there and its TTL has not run out
CacheExists(id) == id \in DOMAIN cache /\ now < cache[id].exp

\* redis.set(key, userId, 'EX', ttl)
CacheSet(id, userId, ttl) ==
  [s \in DOMAIN cache \cup {id} |->
     IF s = id THEN [userId |-> userId, exp |-> now + ttl] ELSE cache[s]]

\* (mutation) the del is not sent
CacheDelSkipped(ids) == cache

\* redis.del(key ...)
CacheDel(ids) == [s \in DOMAIN cache \ ids |-> cache[s]]

\* findMany({where: {userId}, orderBy: {createdAt: 'desc'}}) as a list of ids
RECURSIVE OrderByCreatedDesc(_)
OrderByCreatedDesc(S) ==
  IF S = {} THEN <<>>
  ELSE LET newest == CHOOSE s \in S :
                       \A r \in S : sessions[r].createdAt <= sessions[s].createdAt
       IN <<newest>> \o OrderByCreatedDesc(S \ {newest})

\* Array.prototype.slice(n)
Slice(seq, n) == IF Len(seq) > n THEN SubSeq(seq, n + 1, Len(seq)) ELSE <<>>

Range(seq) == {seq[i] : i \in 1..Len(seq)}

----------------------------------------------------------------------------
(* Process bookkeeping.                                                    *)

NoLoc == [op |-> "", userId |-> 0, sid |-> 0, tok |-> NoTok, newTok |-> NoTok,
          found |-> FALSE, gone |-> FALSE, list |-> <<>>, ip |-> "", ttl |-> 0, stale |-> FALSE,
          raced |-> FALSE, phone |-> "", code |-> "", isNew |-> FALSE,
          fresh |-> FALSE, n |-> 0, rank |-> 0, sub |-> "", email |-> "",
          badges |-> {}, created |-> FALSE, hintOwner |-> 0, health |-> "",
          at |-> 0, evicted |-> {}, prior |-> ""]

NoRet == [op |-> "", status |-> "", userId |-> 0, sid |-> 0, tok |-> NoTok,
          newTok |-> NoTok, stale |-> FALSE, raced |-> FALSE, phone |-> "",
          code |-> "", isNew |-> FALSE, fresh |-> FALSE, rank |-> 0, sub |-> "",
          email |-> "", created |-> FALSE, hintOwner |-> 0, found |-> FALSE,
          gone |-> FALSE, health |-> "", n |-> 0, ip |-> "", ttl |-> 0,
          evicted |-> {}]

Goto(p, label) == pc' = [pc EXCEPT ![p] = label]

\* the handler of p ends: its result is recorded and p is idle again
Return(p, status, l) ==
  /\ pc' = [pc EXCEPT ![p] = "idle"]
  /\ ret' = [ret EXCEPT ![p] =
       [op |-> l.op, status |-> status, userId |-> l.userId, sid |-> l.sid,
        tok |-> l.tok, newTok |-> l.newTok, stale |-> l.stale,
        raced |-> l.raced, phone |-> l.phone, code |-> l.code,
        isNew |-> l.isNew, fresh |-> l.fresh, rank |-> l.rank,
        sub |-> l.sub, email |-> l.email, created |-> l.created,
        hintOwner |-> l.hintOwner, found |-> l.found, gone |-> l.gone,
        health |-> l.health, n |-> l.n, ip |-> l.ip, ttl |-> l.ttl,
        evicted |-> l.evicted]]
  /\ loc' = [loc EXCEPT ![p] = NoLoc]

----------------------------------------------------------------------------
(* What clients do.  The devices of the first Preloaded-1 sessions stay    *)
(* passive; every other issuance can be presented by its holder (or by a   *)
(* thief) at any time.                                                     *)

Watched(i) == i.sessionId >= Preloaded

Presentable == {i \in issued : Watched(i)}

Idle(p) == p \in procs /\ pc[p] = "idle" /\ budget > 0

Spend == budget' = budget - 1

StartCall(p, l) ==
  /\ loc' = [loc EXCEPT ![p] = l]
  /\ ret' = [ret EXCEPT ![p] = NoRet]

----------------------------------------------------------------------------
(* AuthService.createSession  (auth.service.ts:324-383)                    *)

\* the pair signed by the call is handed to the client (l.377-381, l.301-305)
Issue(l) ==
  issued' = issued \cup {[userId |-> l.userId, sessionId |-> l.sid, iat |-> l.newTok.iat]}

\* l.330-340: the synchronous head of createSession.  The argument of
\* userSession.create, expiresAt = Date.now() + refreshExpMs, is evaluated
\* when createSession is entered; `at` keeps that reading of the clock.
EnterCreateSession(l) == [l EXCEPT !.at = now]

\* A credential handler has resolved the existing account u (its findUnique
\* by external id returned the row) and calls createSession(u, _, ip).
CallLogin(p, u, ip) ==
  /\ Idle(p)
  /\ StartCall(p, EnterCreateSession([NoLoc EXCEPT !.op = "login", !.userId = u, !.ip = ip]))
  /\ Goto(p, "cs_create")
  /\ UNCHANGED <<now, sessions, cache, nextId, issued, retired, procs, config, marketVars, rl, phoneVars>>
  /\ Spend

\* l.332-344: prisma.userSession.create with the placeholder hash '' and the
\* expiry computed on entry; when it resolves both tokens are signed
\* (iat = the clock then) and the handler waits for the update.
CsCreate(p) ==
  /\ pc[p] = "cs_create"
  /\ LET id == nextId + 1 IN
     /\ sessions' = DbInsert(id, [userId |-> loc[p].userId,
                                  refreshTokenHash |-> EmptyHash,
                                  ipAddress |-> loc[p].ip,
                                  expiresAt |-> loc[p].at + RefreshExpSec,
                                  createdAt |-> id])
     /\ nextId' = id
     /\ loc' = [loc EXCEPT ![p].sid = id,
                           ![p].newTok = generateRefreshToken(loc[p].userId, id, now)]
  /\ Goto(p, "cs_hash")
  /\ UNCHANGED <<now, cache, issued, retired, ret, procs, config, marketVars, rl, budget, phoneVars>>

\* l.347-350: prisma.userSession.update of the hash of the token signed at
\* l.343; update throws P2025 when the row is gone, which
\* error-handler.ts:50-60 answers 404 NOT_FOUND.
CsHash(p) ==
  /\ pc[p] = "cs_hash"
  /\ LET l == loc[p]
         t == l.newTok
     IN
     /\ IF l.sid \in SessionIds
        THEN /\ sessions' = [sessions EXCEPT ![l.sid].refreshTokenHash = hashToken(t)]
             /\ Goto(p, "cs_cache")
             /\ UNCHANGED <<loc, ret>>
        ELSE /\ Return(p, "NotFound", l)
             /\ UNCHANGED sessions
  /\ UNCHANGED <<now, cache, nextId, issued, retired, procs, config, marketVars, rl, budget, phoneVars>>

\* l.353-354: redis.set(`session:${id}`, userId, 'EX', ttl)
CsCache(p) ==
  /\ pc[p] = "cs_cache"
  /\ cache' = CacheSet(loc[p].sid, loc[p].userId, RefreshExpSec)
  /\ Goto(p, "cs_touch")
  /\ UNCHANGED <<now, sessions, nextId, issued, retired, loc, ret, procs, config, marketVars, rl, budget, phoneVars>>

\* l.357-360: prisma.user.update({lastActiveAt}); account rows are never
\* deleted and lastActiveAt is read by nothing modelled here.
CsTouch(p) ==
  /\ pc[p] = "cs_touch"
  /\ Goto(p, "cs_find")
  /\ UNCHANGED <<now, sessions, cache, nextId, issued, retired, loc, ret, procs, config, marketVars, rl, budget, phoneVars>>

\* (mutation) the list is cut from the wrong end: the newest are dropped
sessionsToDeleteNewest(u) ==
  LET all == OrderByCreatedDesc(SessionsOf(u)) IN
  IF Len(all) > MaxSessionsPerUser
  THEN SubSeq(all, 1, Len(all) - MaxSessionsPerUser) ELSE <<>>

\* l.363-369: findMany ordered by createdAt desc, then slice(5)
sessionsToDelete(u) ==
  Slice(OrderByCreatedDesc(SessionsOf(u)), MaxSessionsPerUser)

CsFind(p) ==
  /\ pc[p] = "cs_find"
  /\ LET l == loc[p]
         del == sessionsToDelete(l.userId)
     IN IF Cardinality(SessionsOf(l.userId)) > MaxSessionsPerUser
        THEN /\ loc' = [loc EXCEPT ![p].list = del, ![p].evicted = Range(del)]
             /\ Goto(p, "cs_evict")
             /\ UNCHANGED <<ret, issued>>
        ELSE /\ Return(p, "Ok", l)
             /\ Issue(l)
  /\ UNCHANGED <<now, sessions, cache, nextId, retired, procs, config, marketVars, rl, budget, phoneVars>>

\* (mutation) the excess rows are not deleted
CsEvictSkipped(p) ==
  /\ pc[p] = "cs_evict"
  /\ Goto(p, "cs_del")
  /\ UNCHANGED <<now, sessions, cache, nextId, issued, retired, loc, ret, procs, config, marketVars, rl, budget, phoneVars>>

\* l.370-372: prisma.userSession.deleteMany({id in sessionsToDelete})
CsEvict(p) ==
  /\ pc[p] = "cs_evict"
  /\ sessions' = DbDelete(Range(loc[p].list))
  /\ Goto(p, "cs_del")
  /\ UNCHANGED <<now, cache, nextId, issued, retired, loc, ret, procs, config, marketVars, rl, budget, phoneVars>>

\* (mutation) the cache keys of the evicted sessions are left alone
CsDelSkipped(p) ==
  /\ pc[p] = "cs_del"
  /\ Return(p, "Ok", loc[p])
  /\ Issue(loc[p])
  /\ UNCHANGED <<now, sessions, cache, nextId, retired, procs, config, marketVars, rl, budget, phoneVars>>

\* l.373-375: one redis.del per evicted session, in list order
CsDel(p) ==
  /\ pc[p] = "cs_del"
  /\ LET l == loc[p] IN
     /\ cache' = CacheDel({Head(l.list)})
     /\ IF Len(l.list) > 1
        THEN /\ loc' = [loc EXCEPT ![p].list = Tail(l.list)]
             /\ UNCHANGED <<pc, ret, issued>>
        ELSE /\ Return(p, "Ok", l)
             /\ Issue(l)
  /\ UNCHANGED <<now, sessions, nextId, retired, procs, config, marketVars, rl, budget, phoneVars>>

----------------------------------------------------------------------------
(* AuthService.refreshTokens  (auth.service.ts:242-306)                    *)

\* l.253-259: findFirst({id, refreshTokenHash, expiresAt > t}), t the Date
\* the handler built before the await
FindSession(tok, t) ==
  /\ tok.sessionId \in SessionIds
  /\ sessions[tok.sessionId].refreshTokenHash = hashToken(tok)
  /\ sessions[tok.sessionId].expiresAt > t

\* l.243-258: the synchronous head of refreshTokens: verifyRefreshToken and
\* the where clause of the findFirst, `at` being its new Date().  `stale` is
\* history: was the token already rotated away when the call began.
CallRefresh(p, tok, ip) ==
  /\ Idle(p)
  /\ LET l == [NoLoc EXCEPT !.op = "refresh", !.tok = tok, !.ip = ip,
                            !.userId = tok.userId, !.sid = tok.sessionId,
                            !.stale = (tok \in retired), !.at = now]
     IN
     IF ~verifyRefreshToken(tok, now)
     THEN Return(p, "InvalidRefreshToken", l)
     ELSE /\ StartCall(p, l)
          /\ Goto(p, "rt_find")
  /\ UNCHANGED <<now, sessions, cache, nextId, issued, retired, procs, config, marketVars, rl,
                 phoneVars>>
  /\ Spend

\* l.253-285: the findFirst is applied; when it resolves with the row, the
\* new pair is signed (iat = the clock then) and the expiry of the update,
\* Date.now() + refreshExpMs, is evaluated: `newTok` and `at` keep them
\* until the update is applied.  `gone` and `raced` are history: had the
\* session no durable record when it was looked up; did the call read the
\* row while another call holding the same token had read it and not yet
\* written.
RtFind(p) ==
  /\ pc[p] = "rt_find"
  /\ LET l == loc[p]
         tok == l.tok
         rivals == {q \in procs \ {p} : pc[q] = "rt_update" /\ loc[q].tok = tok}
     IN
     IF FindSession(tok, l.at)
     THEN /\ loc' = [q \in AllProcs |->
                       IF q = p THEN [l EXCEPT !.found = TRUE,
                                               !.userId = sessions[tok.sessionId].userId,
                                               !.newTok = generateRefreshToken(
                                                   sessions[tok.sessionId].userId,
                                                   tok.sessionId, now),
                                               !.at = now,
                                               !.raced = (rivals # {})]
                       ELSE IF q \in rivals THEN [loc[q] EXCEPT !.raced = TRUE]
                       ELSE loc[q]]
          /\ Goto(p, "rt_update")
     ELSE /\ loc' = [loc EXCEPT ![p].gone = (tok.sessionId \notin SessionIds)]
          /\ Goto(p, "rt_deleteMany")
  /\ UNCHANGED <<now, sessions, cache, nextId, issued, retired, ret, procs, config, marketVars,
                 rl, budget, phoneVars>>

\* (mutation) the reuse branch deletes nothing
RtDeleteManySkipped(p) ==
  /\ pc[p] = "rt_deleteMany"
  /\ Goto(p, "rt_findMany")
  /\ UNCHANGED <<now, sessions, cache, nextId, issued, retired, loc, ret, procs, config, marketVars, rl,
                 budget, phoneVars>>

\* (mutation) the deleteMany has no where clause: the sessions of every
\* account are deleted
RtDeleteManyEveryAccount(p) ==
  /\ pc[p] = "rt_deleteMany"
  /\ sessions' = DbDelete(SessionIds)
  /\ Goto(p, "rt_findMany")
  /\ UNCHANGED <<now, cache, nextId, issued, retired, loc, ret, procs, config, marketVars, rl, budget, phoneVars>>

\* l.264-266: deleteMany({where: {userId: payload.userId}})
RtDeleteMany(p) ==
  /\ pc[p] = "rt_deleteMany"
  /\ sessions' = DbDelete(SessionsOf(loc[p].userId))
  /\ Goto(p, "rt_findMany")
  /\ UNCHANGED <<now, cache, nextId, issued, retired, loc, ret, procs, config, marketVars, rl, budget, phoneVars>>

\* l.389-392: invalidateUserSessions reads the ids of the account's sessions
RtFindMany(p) ==
  /\ pc[p] = "rt_findMany"
  /\ loc' = [loc EXCEPT ![p].list = OrderByCreatedDesc(SessionsOf(loc[p].userId))]
  /\ Goto(p, "rt_pipeline")
  /\ UNCHANGED <<now, sessions, cache, nextId, issued, retired, ret, procs, config, marketVars, rl, budget, phoneVars>>

\* l.394-398: one pipelined del per id read, then l.268 throws
RtPipeline(p) ==
  /\ pc[p] = "rt_pipeline"
  /\ cache' = CacheDel(Range(loc[p].list))
  /\ Return(p, "SessionCompromised", loc[p])
  /\ UNCHANGED <<now, sessions, nextId, issued, retired, procs, config, marketVars, rl, budget, phoneVars>>

\* (mutation) the update is keyed by the account instead of the session id:
\* every session of the account receives the new hash, ip and expiry
RtUpdateByAccount(p) ==
  /\ pc[p] = "rt_update"
  /\ LET l == loc[p]
         t == l.newTok
     IN
     /\ IF l.sid \in SessionIds
        THEN /\ sessions' = [s \in SessionIds |->
                   IF sessions[s].userId = l.userId
                   THEN [sessions[s] EXCEPT !.refreshTokenHash = hashToken(t),
                                            !.ipAddress = l.ip,
                                            !.expiresAt = l.at + RefreshExpSec]
                   ELSE sessions[s]]
             /\ Goto(p, "rt_cache")
             /\ UNCHANGED <<loc, ret>>
        ELSE /\ Return(p, "NotFound", l)
             /\ UNCHANGED sessions
  /\ UNCHANGED <<now, cache, nextId, issued, retired, procs, config, marketVars, rl, budget, phoneVars>>

\* l.288-295: update hash, ip and expiry of the row with the values computed
\* when the findFirst resolved; update throws P2025 when the row is gone
\* (404 NOT_FOUND, error-handler.ts:50-60).
RtUpdate(p) ==
  /\ pc[p] = "rt_update"
  /\ LET l == loc[p]
         t == l.newTok
     IN
     /\ IF l.sid \in SessionIds
        THEN /\ sessions' = [sessions EXCEPT ![l.sid] =
                   [@ EXCEPT !.refreshTokenHash = hashToken(t),
                             !.ipAddress = l.ip,
                             !.expiresAt = l.at + RefreshExpSec]]
             /\ Goto(p, "rt_cache")
             /\ UNCHANGED <<loc, ret>>
        ELSE /\ Return(p, "NotFound", l)
             /\ UNCHANGED sessions
  /\ UNCHANGED <<now, cache, nextId, issued, retired, procs, config, marketVars, rl, budget, phoneVars>>

\* l.298-305: redis.set of the cache entry, then the new pair is returned
RtCache(p) ==
  /\ pc[p] = "rt_cache"
  /\ cache' = CacheSet(loc[p].sid, loc[p].userId, RefreshExpSec)
  /\ retired' = retired \cup {loc[p].tok}
  /\ Return(p, "Ok", loc[p])
  /\ Issue(loc[p])
  /\ UNCHANGED <<now, sessions, nextId, procs, config, marketVars, rl, budget, phoneVars>>

----------------------------------------------------------------------------
(* AuthService.logout  (auth.service.ts:311-319)                           *)

\* l.312-316: delete of the row; a missing row is swallowed by the catch.
\* `found` is history: the row was there when the call began.
CallLogout(p, sid) ==
  /\ Idle(p)
  /\ StartCall(p, [NoLoc EXCEPT !.op = "logout", !.sid = sid,
                                !.found = (sid \in SessionIds)])
  /\ sessions' = DbDelete({sid})
  /\ Goto(p, "lo_del")
  /\ UNCHANGED <<now, cache, nextId, issued, retired, procs, config, marketVars, rl, phoneVars>>
  /\ Spend

\* l.318: redis.del(`session:${sessionId}`)
LoDel(p) ==
  /\ pc[p] = "lo_del"
  /\ cache' = CacheDel({loc[p].sid})
  /\ Return(p, "Ok", loc[p])
  /\ UNCHANGED <<now, sessions, nextId, issued, retired, procs, config, marketVars, rl, budget, phoneVars>>

----------------------------------------------------------------------------
(* authenticate  (auth.middleware.ts:9-52)                                 *)

\* (mutation) the durable record exists; its expiry is not looked at
DurableValidAnyAge(id) == id \in SessionIds

\* l.30-36: the durable record exists and `expiresAt < new Date()` is false
DurableValid(id) == id \in SessionIds /\ ~(sessions[id].expiresAt < now)

\* The session check of the gate as one read of both stores: what isValid
\* answers in the current state.
IsValid(id) == CacheExists(id) \/ DurableValid(id)

\* l.13-25: the synchronous head of authenticate: verifyAccessToken; a
\* token that does not verify is refused before any store is read
CallAuthenticate(p, tok) ==
  /\ Idle(p)
  /\ LET l == [NoLoc EXCEPT !.op = "authenticate", !.tok = tok,
                            !.userId = tok.userId, !.sid = tok.sessionId]
     IN
     IF ~verifyAccessToken(tok, now) THEN Return(p, "Unauthorized", l)
     ELSE /\ StartCall(p, l)
          /\ Goto(p, "au_exists")
  /\ UNCHANGED <<now, sessions, cache, nextId, issued, retired, procs, config, marketVars, rl, phoneVars>>
  /\ Spend

\* l.26-28, l.45-48: redis.exists is applied; with the key the request is
\* accepted, without it the handler goes on to the durable store
AuExists(p) ==
  /\ pc[p] = "au_exists"
  /\ IF CacheExists(loc[p].sid) THEN Return(p, "Ok", loc[p])
     ELSE /\ Goto(p, "au_find")
          /\ UNCHANGED <<loc, ret>>
  /\ UNCHANGED <<now, sessions, cache, nextId, issued, retired, procs, config, marketVars, rl,
                 budget, phoneVars>>

\* l.30-40: findUnique, the expiry test and the remaining ttl
AuFind(p) ==
  /\ pc[p] = "au_find"
  /\ LET l == loc[p] IN
     IF ~DurableValid(l.sid) THEN Return(p, "Unauthorized", l)
     ELSE LET ttl == sessions[l.sid].expiresAt - now IN
          IF ttl > 0
          THEN /\ loc' = [loc EXCEPT ![p].ttl = ttl,
                                     ![p].userId = sessions[l.sid].userId]
               /\ Goto(p, "au_cache")
               /\ UNCHANGED ret
          ELSE Return(p, "Ok", l)
  /\ UNCHANGED <<now, sessions, cache, nextId, issued, retired, procs, config, marketVars, rl, budget, phoneVars>>

\* l.41: redis.set(sessionKey, session.userId, 'EX', ttl)
AuCache(p) ==
  /\ pc[p] = "au_cache"
  /\ cache' = CacheSet(loc[p].sid, loc[p].userId, loc[p].ttl)
  /\ Return(p, "Ok", loc[p])
  /\ UNCHANGED <<now, sessions, nextId, issued, retired, procs, config, marketVars, rl, budget, phoneVars>>

----------------------------------------------------------------------------
(* Time.  A second passes; redis drops the keys whose TTL has run out.     *)

\* The fast store is ephemeral: a key can be gone before its TTL (eviction
\* under memory pressure, a restart).  auth.middleware.ts:28-42 is the path
\* the program takes afterwards.
CacheLost(id) ==
  /\ budget > 0
  /\ id \in DOMAIN cache
  /\ cache' = CacheDel({id})
  /\ Spend
  /\ UNCHANGED <<now, sessions, nextId, issued, retired, pc, loc, ret, procs, config, marketVars, rl, phoneVars>>

\* the keys of a keyspace whose TTL has not run out at time t
Unexpired(store, t) == [k \in {x \in DOMAIN store : t < store[x].exp} |-> store[k]]

\* the attempt counters carry a TTL only once `expire` has been called
UnexpiredCounters(t) ==
  [k \in {x \in DOMAIN attempts : ~attempts[x].hasTtl \/ t < attempts[x].exp}
     |-> attempts[k]]

\* the sorted sets of the rate guard carry a TTL once `expire` has run
UnexpiredWindows(t) ==
  [k \in {x \in DOMAIN rl : ~rl[x].hasTtl \/ t < rl[x].exp} |-> rl[k]]

Pass(d) ==
  /\ now' = now + d
  /\ cache' = Unexpired(cache, now + d)
  /\ codes' = Unexpired(codes, now + d)
  /\ attempts' = UnexpiredCounters(now + d)
  /\ rl' = UnexpiredWindows(now + d)
  /\ UNCHANGED <<sessions, nextId, issued, retired, pc, loc, ret, procs, config, marketVars, budget,
                 accounts, lastSent>>

Tick ==
  /\ now < MaxClock
  /\ Pass(1)

\* the clock of the runs of the gate goes one second past the expiry of a
\* record written at time 0
MaxClockGate == RefreshExpSec + 1

TickGate ==
  /\ now < MaxClockGate
  /\ Pass(1)

----------------------------------------------------------------------------
(* Initial states: accounts 1 and 2 have signed up by phone; account 1 has  *)
(* logged in on Preloaded devices at time 0 (the state reached by that     *)
(* many createSession calls); nobody is being served.                      *)

\* the row verifyPhoneCode creates (auth.service.ts:74-79); null is ""
Account(phone) ==
  [phone |-> phone, email |-> NoEmail, googleId |-> "", appleId |-> "",
   verifiedBadges |-> {"PHONE"}]

\* winStart/winCount are history: when the phone's current hour of requests
\* began and how many requests it has counted (0: no request yet)
NoChallenge == [code |-> "", at |-> 0, used |-> FALSE, winStart |-> 0, winCount |-> 0]

PreloadedIds == 1..Preloaded

\* the users that trade: user 1 sells, users 2 and 3 buy (OffersService
\* reads no user row)
Buyers == {2, 3}

\* prisma.offer.create (offers.service.ts:78-88, 215-226): status has the
\* column default PENDING
NewOffer(listingId, buyerId, sellerId, parent) ==
  [listingId |-> listingId, buyerId |-> buyerId, sellerId |-> sellerId,
   status |-> "PENDING", parentOfferId |-> parent]

\* one active listing of the seller, on which each buyer has made an offer
\* (the state after two createOffer calls)
ListingsAtStart == <<[sellerId |-> 1, status |-> "ACTIVE"]>>

Seller == ListingsAtStart[1].sellerId

OffersAtStart == <<NewOffer(1, 2, Seller, 0), NewOffer(1, 3, Seller, 0)>>

SessionsAtStart ==
  /\ now = 0
  /\ listings = ListingsAtStart
  /\ offers = OffersAtStart
  /\ sessions = [s \in PreloadedIds |->
       [userId |-> 1,
        refreshTokenHash |-> hashToken(generateRefreshToken(1, s, 0)),
        ipAddress |-> "ip1",
        expiresAt |-> RefreshExpSec,
        createdAt |-> s]]
  /\ cache = [s \in PreloadedIds |-> [userId |-> 1, exp |-> RefreshExpSec]]
  /\ nextId = Preloaded
  /\ issued = {[userId |-> 1, sessionId |-> s, iat |-> 0] : s \in PreloadedIds}
  /\ retired = {}
  /\ rl = <<>>
  /\ pc = [p \in AllProcs |-> "idle"]
  /\ loc = [p \in AllProcs |-> NoLoc]
  /\ ret = [p \in AllProcs |-> NoRet]

InitSessions ==
  /\ config = DisjointSecrets
  /\ SessionsAtStart

InitStores ==
  /\ InitSessions
  /\ accounts = <<Account("p1"), Account("p2")>>
  /\ codes = <<>>
  /\ attempts = <<>>
  /\ lastSent = [ph \in Phones |-> NoChallenge]

\* two requests in flight at a time
Init ==
  /\ InitStores
  /\ procs = AllProcs
  /\ budget = CallsConc

\* one request at a time
InitSeq ==
  /\ InitStores
  /\ procs = {1}
  /\ budget = CallsSeq

Next ==
  \/ Tick
  \/ \E i \in Presentable : CacheLost(i.sessionId)
  \/ \E p \in AllProcs :
       \/ \E u \in DOMAIN accounts, ip \in IPs : CallLogin(p, u, ip)
       \/ CsCreate(p) \/ CsHash(p) \/ CsCache(p) \/ CsTouch(p)
       \/ CsFind(p) \/ CsEvict(p) \/ CsDel(p)
       \/ \E i \in Presentable, ip \in IPs : CallRefresh(p, RefreshTokenOf(i), ip)
       \/ RtFind(p) \/ RtDeleteMany(p) \/ RtFindMany(p) \/ RtPipeline(p)
       \/ RtUpdate(p) \/ RtCache(p)
       \/ \E i \in Presentable : CallLogout(p, i.sessionId)
       \/ LoDel(p)
       \/ \E i \in Presentable : CallAuthenticate(p, AccessTokenOf(i))
       \/ AuExists(p) \/ AuFind(p) \/ AuCache(p)

Spec == Init /\ [][Next]_vars

SpecSeq == InitSeq /\ [][Next]_vars

----------------------------------------------------------------------------
(* AuthService.sendVerificationCode  (auth.service.ts:16-44)               *)

\* l.17-21: a fresh code is stored under verification:<phone> for 5 minutes
CallSendCode(p, phone, code) ==
  /\ Idle(p)
  /\ StartCall(p, [NoLoc EXCEPT !.op = "sendCode", !.phone = phone, !.code = code,
                                !.prior = IF phone \in DOMAIN codes
                                          THEN codes[phone].code ELSE ""])
  /\ codes' = [k \in DOMAIN codes \cup {phone} |->
                 IF k = phone THEN [code |-> code, exp |-> now + CodeTtl]
                 ELSE codes[k]]
  /\ lastSent' = [lastSent EXCEPT ![phone] =
                     [@ EXCEPT !.code = code, !.at = now, !.used = FALSE]]
  /\ Goto(p, "sv_incr")
  /\ Spend
  /\ UNCHANGED <<now, sessions, cache, nextId, issued, retired, procs, config, marketVars, rl, accounts, attempts>>

\* (mutation) the limit is applied one attempt early
SendResultEarly(n) == IF n >= MaxSendAttempts THEN "RateLimited" ELSE "Ok"

\* l.30-43: the sixth and later attempts of a window are refused
SendResult(n) == IF n > MaxSendAttempts THEN "RateLimited" ELSE "Ok"

\* history: the place of a request made now in the phone's hour of requests
\* (the hour begins with the first request and lasts AttemptsTtl seconds)
WindowOpen(ph) ==
  lastSent[ph].winCount > 0 /\ now < lastSent[ph].winStart + AttemptsTtl

RankNow(ph) == IF WindowOpen(ph) THEN lastSent[ph].winCount + 1 ELSE 1

\* l.24-26: redis.incr of the attempt counter (a new key has no TTL)
SvIncr(p) ==
  /\ pc[p] = "sv_incr"
  /\ LET ph == loc[p].phone
         n == IF ph \in DOMAIN attempts THEN attempts[ph].n + 1 ELSE 1
         l == [loc[p] EXCEPT !.n = n, !.rank = RankNow(ph)]
     IN
     /\ attempts' = [k \in DOMAIN attempts \cup {ph} |->
                       IF k # ph THEN attempts[k]
                       ELSE IF ph \in DOMAIN attempts
                            THEN [attempts[ph] EXCEPT !.n = n]
                            ELSE [n |-> 1, hasTtl |-> FALSE, exp |-> 0]]
     /\ lastSent' = [lastSent EXCEPT ![ph] =
                       [@ EXCEPT !.winStart = IF WindowOpen(ph) THEN @ ELSE now,
                                 !.winCount = RankNow(ph)]]
     /\ IF n = 1
        THEN /\ loc' = [loc EXCEPT ![p] = l]
             /\ Goto(p, "sv_expire")
             /\ UNCHANGED ret
        ELSE Return(p, SendResult(n), l)
  /\ UNCHANGED <<now, sessions, cache, nextId, issued, retired, procs, config, marketVars, rl, budget,
                 accounts, codes>>

\* l.27: redis.expire(attemptsKey, 3600) after the first attempt of a window
SvExpire(p) ==
  /\ pc[p] = "sv_expire"
  /\ LET ph == loc[p].phone IN
     attempts' = [k \in DOMAIN attempts |->
                    IF k = ph THEN [attempts[k] EXCEPT !.hasTtl = TRUE,
                                                       !.exp = now + AttemptsTtl]
                    ELSE attempts[k]]
  /\ Return(p, SendResult(loc[p].n), loc[p])
  /\ UNCHANGED <<now, sessions, cache, nextId, issued, retired, procs, config, marketVars, rl, budget,
                 accounts, codes, lastSent>>

----------------------------------------------------------------------------
(* AuthService.verifyPhoneCode  (auth.service.ts:49-103)                   *)

\* prisma.user.findUnique({where: {phone}}): phone is a unique column
FindByPhone(phone) == {a \in DOMAIN accounts : accounts[a].phone = phone}

\* (mutation) a wrong code burns the challenge: the stored code is deleted
\* when the presented one differs
CallVerifyBurns(p, phone, code, ip) ==
  /\ Idle(p)
  /\ LET sent == lastSent[phone]
         l == [NoLoc EXCEPT !.op = "verify", !.phone = phone, !.code = code,
                 !.ip = ip,
                 !.fresh = (sent.code = code /\ ~sent.used /\ now < sent.at + CodeTtl),
                 !.stale = (sent.code = code /\ sent.used)]
     IN
     IF phone \notin DOMAIN codes \/ codes[phone].code # code
     THEN /\ Return(p, "InvalidCredential", l)
          /\ codes' = [k \in DOMAIN codes \ {phone} |-> codes[k]]
     ELSE /\ StartCall(p, l)
          /\ Goto(p, "vp_del")
          /\ UNCHANGED codes
  /\ Spend
  /\ UNCHANGED <<now, sessions, cache, nextId, issued, retired, procs, config, marketVars, rl,
                 accounts, attempts, lastSent>>

\* l.50-61: redis.get of the challenge and the two checks; ip is request.ip,
\* handed on to createSession (l.89).  `fresh` and
\* `stale` are history: is the presented code the one last sent to the
\* phone, unexpired and not yet used; has it been used since it was sent.
CallVerify(p, phone, code, ip) ==
  /\ Idle(p)
  /\ LET sent == lastSent[phone]
         l == [NoLoc EXCEPT !.op = "verify", !.phone = phone, !.code = code,
                 !.ip = ip,
                 !.fresh = (sent.code = code /\ ~sent.used /\ now < sent.at + CodeTtl),
                 !.stale = (sent.code = code /\ sent.used)]
     IN
     IF phone \notin DOMAIN codes \/ codes[phone].code # code
     THEN Return(p, "InvalidCredential", l)
     ELSE /\ StartCall(p, l)
          /\ Goto(p, "vp_del")
  /\ Spend
  /\ UNCHANGED <<now, sessions, cache, nextId, issued, retired, procs, config, marketVars, rl, phoneVars>>

\* (mutation) the used code is left in the fast store
VpDelSkipped(p) ==
  /\ pc[p] = "vp_del"
  /\ lastSent' = [lastSent EXCEPT ![loc[p].phone].used = TRUE]
  /\ Goto(p, "vp_find")
  /\ UNCHANGED <<now, sessions, cache, nextId, issued, retired, loc, ret, procs, config, marketVars, rl,
                 budget, accounts, codes, attempts>>

\* l.64: redis.del(key).  History: the code counts as used; `raced` records
\* that another call had already used the same code.
VpDel(p) ==
  /\ pc[p] = "vp_del"
  /\ LET ph == loc[p].phone
         same == lastSent[ph].code = loc[p].code
     IN
     /\ codes' = [k \in DOMAIN codes \ {ph} |-> codes[k]]
     /\ lastSent' = [lastSent EXCEPT ![ph].used = @ \/ same]
     /\ loc' = [loc EXCEPT ![p].raced = (same /\ lastSent[ph].used)]
  /\ Goto(p, "vp_find")
  /\ UNCHANGED <<now, sessions, cache, nextId, issued, retired, ret, procs, config, marketVars, rl,
                 budget, accounts, attempts>>

\* l.67-71: findUnique by phone; isNewUser = !user
VpFind(p) ==
  /\ pc[p] = "vp_find"
  /\ LET found == FindByPhone(loc[p].phone) IN
     IF found = {}
     THEN /\ loc' = [loc EXCEPT ![p].isNew = TRUE]
          /\ Goto(p, "vp_upsert")
     ELSE LET u == CHOOSE a \in found : TRUE IN
          /\ IF "PHONE" \in accounts[u].verifiedBadges
             THEN /\ loc' = [loc EXCEPT ![p] = EnterCreateSession([@ EXCEPT !.userId = u])]
                  /\ Goto(p, "cs_create")
             ELSE /\ loc' = [loc EXCEPT ![p].userId = u]
                  /\ Goto(p, "vp_upsert")
  /\ UNCHANGED <<now, sessions, cache, nextId, issued, retired, ret, procs, config, marketVars, rl, budget,
                 phoneVars>>

\* l.73-87: user.create (the unique column rejects a second row for the
\* phone: P2002, answered 409 by error-handler.ts:37-49) or the push of the
\* PHONE badge.  `created` is history: this call inserted an account row.
VpUpsert(p) ==
  /\ pc[p] = "vp_upsert"
  /\ LET l == loc[p] IN
     IF l.userId = 0
     THEN IF FindByPhone(l.phone) # {}
          THEN /\ Return(p, "Conflict", l)
               /\ UNCHANGED accounts
          ELSE /\ accounts' = Append(accounts, Account(l.phone))
               /\ loc' = [loc EXCEPT ![p] =
                           EnterCreateSession([l EXCEPT !.userId = Len(accounts) + 1,
                                                        !.created = TRUE])]
               /\ Goto(p, "cs_create")
               /\ UNCHANGED ret
     ELSE /\ accounts' = [accounts EXCEPT ![l.userId].verifiedBadges = @ \cup {"PHONE"}]
          /\ loc' = [loc EXCEPT ![p] = EnterCreateSession(l)]
          /\ Goto(p, "cs_create")
          /\ UNCHANGED ret
  /\ UNCHANGED <<now, sessions, cache, nextId, issued, retired, procs, config, marketVars, rl, budget,
                 codes, attempts, lastSent>>

\* time passes on the scale of the challenge's TTLs
Elapse(d) ==
  /\ budget > 0
  /\ Spend
  /\ now' = now + d
  /\ cache' = Unexpired(cache, now + d)
  /\ codes' = Unexpired(codes, now + d)
  /\ attempts' = UnexpiredCounters(now + d)
  /\ rl' = UnexpiredWindows(now + d)
  /\ UNCHANGED <<sessions, nextId, issued, retired, pc, loc, ret, procs, config, marketVars,
                 accounts, lastSent>>

\* the phone path, two requests in flight at a time
InitPhone ==
  /\ InitStores
  /\ procs = AllProcs
  /\ budget = CallsPhoneConc

\* the phone path, one request at a time
InitPhoneSeq ==
  /\ InitStores
  /\ procs = {1}
  /\ budget = CallsPhoneSeq

NextPhone ==
  \/ \E d \in {CodeTtl, AttemptsTtl} : Elapse(d)
  \/ \E p \in AllProcs :
       \/ \E ph \in Phones, c \in Codes : CallSendCode(p, ph, c)
       \/ SvIncr(p) \/ SvExpire(p)
       \/ \E ph \in Phones, c \in Codes, ip \in IPs : CallVerify(p, ph, c, ip)
       \/ VpDel(p) \/ VpFind(p) \/ VpUpsert(p)
       \/ CsCreate(p) \/ CsHash(p) \/ CsCache(p) \/ CsTouch(p)
       \/ CsFind(p) \/ CsEvict(p) \/ CsDel(p)

SpecPhone == InitPhone /\ [][NextPhone]_vars

SpecPhoneSeq == InitPhoneSeq /\ [][NextPhone]_vars

----------------------------------------------------------------------------
(* AuthService.authenticateWithGoogle  (auth.service.ts:108-183)           *)
(* AuthService.authenticateWithApple   (auth.service.ts:188-237)           *)

\* findUnique({where: {googleId}}), ({where: {appleId}}), ({where: {email}}):
\* the three columns are unique keys of the user table
FindByGoogleId(sub) == {a \in DOMAIN accounts : accounts[a].googleId = sub}

FindByAppleId(sub) == {a \in DOMAIN accounts : accounts[a].appleId = sub}

FindByEmail(email) == {a \in DOMAIN accounts : accounts[a].email = email}

\* history: the account that holds the token's email when the call begins
HintOwner(email) ==
  IF email # NoEmail /\ FindByEmail(email) # {}
  THEN CHOOSE a \in FindByEmail(email) : TRUE ELSE 0

\* the row user.create inserts for a federated sign-up (l.157-165, 213-220)
FederatedAccount(badge, sub, email) ==
  [phone |-> "", email |-> email,
   googleId |-> IF badge = "GOOGLE" THEN sub ELSE "",
   appleId |-> IF badge = "APPLE" THEN sub ELSE "",
   verifiedBadges |-> {badge}]

\* (mutation) a store whose unique keys are not enforced
ViolatesUniqueNever(row) == FALSE

\* the unique keys of the user table reject the insert of `row` (P2002);
\* null columns never collide
ViolatesUnique(row) ==
  \/ row.phone # "" /\ FindByPhone(row.phone) # {}
  \/ row.email # NoEmail /\ FindByEmail(row.email) # {}
  \/ row.googleId # "" /\ FindByGoogleId(row.googleId) # {}
  \/ row.appleId # "" /\ FindByAppleId(row.appleId) # {}

\* l.117-137: the token is decoded, then findUnique by googleId;
\* isNewUser = !user.  payload.sub of a null payload throws a TypeError
\* outside the try of l.123-127: the handler fails with a 500.  The lookup
\* by email is skipped for a falsy claim (absent or empty).
CallGoogle(p, tok, ip) ==
  /\ Idle(p)
  /\ LET known == FindByGoogleId(tok.sub)
         l == [NoLoc EXCEPT !.op = "google", !.sub = tok.sub, !.email = tok.email,
                 !.ip = ip, !.isNew = (known = {}),
                 !.hintOwner = IF known = {} THEN HintOwner(tok.email) ELSE 0]
     IN
     IF ~tok.wellFormed THEN Return(p, "InvalidCredential", [l EXCEPT !.isNew = FALSE])
     ELSE IF tok.payload = "null" THEN Return(p, "Failure", [l EXCEPT !.isNew = FALSE])
     ELSE /\ ret' = [ret EXCEPT ![p] = NoRet]
          /\ IF known # {}
             THEN /\ loc' = [loc EXCEPT ![p] =
                               EnterCreateSession(
                                 [l EXCEPT !.userId = CHOOSE a \in known : TRUE])]
                  /\ Goto(p, "cs_create")
             ELSE /\ loc' = [loc EXCEPT ![p] = l]
                  /\ IF tok.email \notin {NoEmail, EmptyEmail} THEN Goto(p, "ga_findEmail")
                                       ELSE Goto(p, "ga_create")
  /\ Spend
  /\ UNCHANGED <<now, sessions, cache, nextId, issued, retired, procs, config, marketVars, rl, phoneVars>>

\* l.138-142: findUnique by email; the row read is kept for the update
GaFindEmail(p) ==
  /\ pc[p] = "ga_findEmail"
  /\ LET found == FindByEmail(loc[p].email) IN
     IF found = {} THEN /\ Goto(p, "ga_create")
                        /\ UNCHANGED loc
     ELSE LET u == CHOOSE a \in found : TRUE IN
          /\ loc' = [loc EXCEPT ![p].userId = u,
                                ![p].badges = accounts[u].verifiedBadges]
          /\ Goto(p, "ga_link")
  /\ UNCHANGED <<now, sessions, cache, nextId, issued, retired, ret, procs, config, marketVars, rl, budget,
                 phoneVars>>

\* l.144-152: user.update sets googleId and the badges computed from the row
\* read at l.138
GaLink(p) ==
  /\ pc[p] = "ga_link"
  /\ LET l == loc[p] IN
     IF FindByGoogleId(l.sub) \ {l.userId} # {}
     THEN /\ Return(p, "Conflict", l)
          /\ UNCHANGED accounts
     ELSE /\ accounts' = [accounts EXCEPT ![l.userId] =
                [@ EXCEPT !.googleId = l.sub,
                          !.verifiedBadges = l.badges \cup {"GOOGLE"}]]
          /\ loc' = [loc EXCEPT ![p] = EnterCreateSession(l)]
          /\ Goto(p, "cs_create")
          /\ UNCHANGED ret
  /\ UNCHANGED <<now, sessions, cache, nextId, issued, retired, procs, config, marketVars, rl, budget,
                 codes, attempts, lastSent>>

\* l.156-166 (Google), l.213-220 (Apple): user.create
FederatedCreate(p, label, badge) ==
  /\ pc[p] = label
  /\ LET l == loc[p]
         row == FederatedAccount(badge, l.sub, l.email)
     IN
     IF ViolatesUnique(row)
     THEN /\ Return(p, "Conflict", l)
          /\ UNCHANGED accounts
     ELSE /\ accounts' = Append(accounts, row)
          /\ loc' = [loc EXCEPT ![p] =
                      EnterCreateSession([l EXCEPT !.userId = Len(accounts) + 1,
                                                   !.created = TRUE])]
          /\ Goto(p, "cs_create")
          /\ UNCHANGED ret
  /\ UNCHANGED <<now, sessions, cache, nextId, issued, retired, procs, config, marketVars, rl, budget,
                 codes, attempts, lastSent>>

GaCreate(p) == FederatedCreate(p, "ga_create", "GOOGLE")

AaCreate(p) == FederatedCreate(p, "aa_create", "APPLE")

\* l.190-208: the token is decoded, then findUnique by appleId;
\* isNewUser = !user; no lookup by email follows.  payload.sub of a null
\* payload throws a TypeError outside the try of l.196-200 (a 500).
CallApple(p, tok, ip) ==
  /\ Idle(p)
  /\ LET known == FindByAppleId(tok.sub)
         l == [NoLoc EXCEPT !.op = "apple", !.sub = tok.sub, !.email = tok.email,
                 !.ip = ip, !.isNew = (known = {}),
                 !.hintOwner = IF known = {} THEN HintOwner(tok.email) ELSE 0]
     IN
     IF ~tok.wellFormed THEN Return(p, "InvalidCredential", [l EXCEPT !.isNew = FALSE])
     ELSE IF tok.payload = "null" THEN Return(p, "Failure", [l EXCEPT !.isNew = FALSE])
     ELSE /\ ret' = [ret EXCEPT ![p] = NoRet]
          /\ IF known # {}
             THEN /\ loc' = [loc EXCEPT ![p] =
                               EnterCreateSession(
                                 [l EXCEPT !.userId = CHOOSE a \in known : TRUE])]
                  /\ Goto(p, "cs_create")
             ELSE /\ loc' = [loc EXCEPT ![p] = l]
                  /\ Goto(p, "aa_create")
  /\ Spend
  /\ UNCHANGED <<now, sessions, cache, nextId, issued, retired, procs, config, marketVars, rl, phoneVars>>

\* Sign-in runs start after sendVerificationCode has stored a code for each
\* phone at time 0; account 1, the owner of the sessions, signed up with
\* Google (g1, e1), account 2 by phone (p1).
InitIdStores ==
  /\ InitSessions
  /\ accounts = <<FederatedAccount("GOOGLE", "g1", "e1"), Account("p1")>>
  /\ codes = [ph \in Phones |-> [code |-> "111111", exp |-> CodeTtl]]
  /\ attempts = [ph \in Phones |-> [n |-> 1, hasTtl |-> TRUE, exp |-> AttemptsTtl]]
  /\ lastSent = [ph \in Phones |->
                   [code |-> "111111", at |-> 0, used |-> FALSE,
                    winStart |-> 0, winCount |-> 1]]

\* the sign-in paths, two requests in flight at a time
InitId ==
  /\ InitIdStores
  /\ procs = AllProcs
  /\ budget = CallsId

\* the sign-in paths, one request at a time
InitIdSeq ==
  /\ InitIdStores
  /\ procs = {1}
  /\ budget = CallsIdSeq

NextId ==
  \E p \in AllProcs :
    \/ \E ph \in Phones, c \in Codes, ip \in IPs : CallVerify(p, ph, c, ip)
    \/ VpDel(p) \/ VpFind(p) \/ VpUpsert(p)
    \/ \E tok \in GoogleTokens, ip \in IPs : CallGoogle(p, tok, ip)
    \/ GaFindEmail(p) \/ GaLink(p) \/ GaCreate(p)
    \/ \E tok \in AppleTokens, ip \in IPs : CallApple(p, tok, ip)
    \/ AaCreate(p)
    \/ CsCreate(p) \/ CsHash(p) \/ CsCache(p) \/ CsTouch(p)
    \/ CsFind(p) \/ CsEvict(p) \/ CsDel(p)

SpecId == InitId /\ [][NextId]_vars

SpecIdSeq == InitIdSeq /\ [][NextId]_vars

----------------------------------------------------------------------------
(* Tokens of any kind at both entry points, under any admissible secrets.  *)

\* a token signed by someone else: well-formed claims of a live session, a
\* signature that no secret of the server produces
Forged ==
  [userId |-> 1, sessionId |-> Preloaded, iat |-> 0,
   exp |-> 2 * RefreshExpSec + 1, sig |-> "forged"]

\* what a client can send as a token: every refresh and access token issued
\* to a watched session, a forged token, and a string that is no token
PresentedTokens ==
  {RefreshTokenOf(i) : i \in Presentable} \cup {AccessTokenOf(i) : i \in Presentable}
    \cup {Forged, NoTok}

InitKinds ==
  /\ config \in AdmissibleConfigs
  /\ SessionsAtStart
  /\ accounts = <<Account("p1"), Account("p2")>>
  /\ codes = <<>>
  /\ attempts = <<>>
  /\ lastSent = [ph \in Phones |-> NoChallenge]
  /\ procs = {1}
  /\ budget = CallsKinds

NextKinds ==
  \/ Tick
  \/ \E i \in Presentable : CacheLost(i.sessionId)
  \/ \E p \in AllProcs :
       \/ \E tok \in PresentedTokens, ip \in IPs : CallRefresh(p, tok, ip)
       \/ RtFind(p) \/ RtDeleteMany(p) \/ RtFindMany(p) \/ RtPipeline(p)
       \/ RtUpdate(p) \/ RtCache(p)
       \/ \E tok \in PresentedTokens : CallAuthenticate(p, tok)
       \/ AuExists(p) \/ AuFind(p) \/ AuCache(p)

SpecKinds == InitKinds /\ [][NextKinds]_vars

\* a pause between requests: on the scale of the TTLs (minutes, an hour) a
\* request is an instant, so the pause falls between requests
Wait(d) ==
  /\ \A p \in AllProcs : pc[p] = "idle"
  /\ Elapse(d)

----------------------------------------------------------------------------
(* createRateLimiter / rateLimitHandler  (rate-limit.middleware.ts:19-70)  *)
(* as configured for rateLimiters.sms.  The key is the caller's ip; the    *)
(* four commands of the pipeline are applied one after the other.  Each    *)
(* check meets the fast store in one of three conditions: "up"; "down":    *)
(* pipeline.exec() rejects; "errors": exec() resolves and every command    *)
(* carries an error instead of a result.                                   *)

StoreHealth == {"up", "down", "errors"}

\* the sorted set under key, as the list of its scores
Scores(key) == IF key \in DOMAIN rl THEN rl[key].scores ELSE <<>>

\* the list without the scores in [0, upTo]
RECURSIVE Above(_, _)
Above(scores, upTo) ==
  IF scores = <<>> THEN <<>>
  ELSE IF Head(scores) <= upTo THEN Above(Tail(scores), upTo)
       ELSE <<Head(scores)>> \o Above(Tail(scores), upTo)

\* the keyspace after the set under key has become `scores`: redis drops a
\* sorted set that has no member left, a new key has no TTL.  `admits` is
\* history: the times of the requests the guard has let through on the key
\* while the store was up; `winStart` is history: the time of the first
\* attempt of the key's current window of SmsWindow seconds.
WithScores(key, scores) ==
  IF scores = <<>> THEN [k \in DOMAIN rl \ {key} |-> rl[k]]
  ELSE [k \in DOMAIN rl \cup {key} |->
          IF k # key THEN rl[k]
          ELSE IF key \in DOMAIN rl THEN [rl[key] EXCEPT !.scores = scores]
               ELSE [scores |-> scores, hasTtl |-> FALSE, exp |-> 0,
                     admits |-> <<>>, winStart |-> 0]]

\* l.28-52: key, now and windowStart are computed and the pipeline is sent;
\* a rejected exec() is caught at l.65-68 and the request goes on
CallGuard(p, ip, health) ==
  /\ Idle(p)
  /\ LET l == [NoLoc EXCEPT !.op = "guard", !.ip = ip, !.health = health,
                            !.at = now]
     IN IF health = "down" THEN Return(p, "Admitted", l)
        ELSE /\ StartCall(p, l)
             /\ Goto(p, "rg_zrem")
  /\ Spend
  /\ UNCHANGED <<now, sessions, cache, nextId, issued, retired, procs, config, marketVars, rl,
                 phoneVars>>

\* l.41: zremrangebyscore(key, 0, windowStart)
RgZrem(p) ==
  /\ pc[p] = "rg_zrem"
  /\ LET l == loc[p] IN
     rl' = IF l.health = "up" /\ l.at >= SmsWindow
           THEN WithScores(l.ip, Above(Scores(l.ip), l.at - SmsWindow))
           ELSE rl
  /\ Goto(p, "rg_zcard")
  /\ UNCHANGED <<now, sessions, cache, nextId, issued, retired, loc, ret, procs, config, marketVars,
                 budget, phoneVars>>

\* l.44, l.55: zcard(key); `(results?.[1]?.[1] as number) || 0`.  `fresh`
\* is history: the request comes more than SmsWindow seconds after the first
\* attempt of the key's window (or the key has no window), so that it is the
\* first attempt of a new window.
RgZcard(p) ==
  /\ pc[p] = "rg_zcard"
  /\ loc' = [loc EXCEPT ![p].n = IF loc[p].health = "up"
                                 THEN Len(Scores(loc[p].ip)) ELSE 0,
                        ![p].fresh = \/ loc[p].ip \notin DOMAIN rl
                                     \/ loc[p].at > rl[loc[p].ip].winStart + SmsWindow]
  /\ Goto(p, "rg_zadd")
  /\ UNCHANGED <<now, sessions, cache, nextId, issued, retired, ret, procs, config, marketVars, rl,
                 budget, phoneVars>>

\* l.47: zadd(key, now, `${now}:${Math.random()}`): a member of its own
RgZadd(p) ==
  /\ pc[p] = "rg_zadd"
  /\ LET l == loc[p] IN
     rl' = IF l.health = "up"
           THEN [WithScores(l.ip, Append(Scores(l.ip), l.at))
                   EXCEPT ![l.ip].winStart = IF l.fresh THEN l.at ELSE @]
           ELSE rl
  /\ Goto(p, "rg_expire")
  /\ UNCHANGED <<now, sessions, cache, nextId, issued, retired, loc, ret, procs, config, marketVars,
                 budget, phoneVars>>

\* (mutation) the count is compared with a limit of zero
GuardResultStrict(n) == "RateLimited"

\* l.62-64: `currentCount >= max` answers 429, otherwise the request goes on
GuardResult(n) == IF n >= SmsMax THEN "RateLimited" ELSE "Admitted"

\* l.50: expire(key, windowSeconds); then exec() resolves and l.55-64 decide
RgExpire(p) ==
  /\ pc[p] = "rg_expire"
  /\ LET l == loc[p] IN
     /\ rl' = IF l.health = "up" /\ l.ip \in DOMAIN rl
              THEN [rl EXCEPT ![l.ip].hasTtl = TRUE, ![l.ip].exp = now + SmsWindow,
                              ![l.ip].admits = IF GuardResult(l.n) = "Admitted"
                                               THEN Append(@, l.at) ELSE @]
              ELSE rl
     /\ Return(p, GuardResult(l.n), l)
  /\ UNCHANGED <<now, sessions, cache, nextId, issued, retired, procs, config, marketVars, budget,
                 phoneVars>>

\* admission checks only, one at a time
InitGuard ==
  /\ InitStores
  /\ procs = {1}
  /\ budget = CallsGuard

NextGuard ==
  \/ Wait(SmsWindow)
  \/ \E p \in AllProcs :
       \/ \E ip \in IPs, h \in StoreHealth : CallGuard(p, ip, h)
       \/ RgZrem(p) \/ RgZcard(p) \/ RgZadd(p) \/ RgExpire(p)

SpecGuard == InitGuard /\ [][NextGuard]_vars

----------------------------------------------------------------------------
(* Failures of the durable store: a prisma call rejects (the database is   *)
(* unreachable, the query times out).  `health` = "dbdown" is history: the *)
(* call met such a failure.                                                *)

\* the awaits on the durable store in createSession and refreshTokens
DurableAwaits == {"cs_create", "cs_hash", "cs_touch", "cs_find", "cs_evict",
                  "rt_find", "rt_deleteMany", "rt_findMany", "rt_update"}

\* the prisma call p is suspended at rejects: neither createSession
\* (l.324-383) nor refreshTokens (l.253-295) catches, the handler throws
DbFails(p) ==
  /\ pc[p] \in DurableAwaits
  /\ Return(p, "Failure", [loc[p] EXCEPT !.health = "dbdown"])
  /\ UNCHANGED <<now, sessions, cache, nextId, issued, retired, procs, config, marketVars, rl,
                 budget, phoneVars>>

\* logout whose delete (l.312) rejects: the catch at l.314-316 takes every
\* rejection for "already deleted" and the handler carries on
CallLogoutDbDown(p, sid) ==
  /\ Idle(p)
  /\ StartCall(p, [NoLoc EXCEPT !.op = "logout", !.sid = sid, !.health = "dbdown",
                                !.found = (sid \in SessionIds)])
  /\ Goto(p, "lo_del")
  /\ Spend
  /\ UNCHANGED <<now, sessions, cache, nextId, issued, retired, procs, config, marketVars, rl,
                 phoneVars>>

\* one request at a time, the durable store failing at any call
InitFail ==
  /\ InitStores
  /\ procs = {1}
  /\ budget = CallsFail

NextFail ==
  \E p \in AllProcs :
    \/ DbFails(p)
    \/ \E u \in DOMAIN accounts, ip \in IPs : CallLogin(p, u, ip)
    \/ CsCreate(p) \/ CsHash(p) \/ CsCache(p) \/ CsTouch(p)
    \/ CsFind(p) \/ CsEvict(p) \/ CsDel(p)
    \/ \E i \in Presentable, ip \in IPs : CallRefresh(p, RefreshTokenOf(i), ip)
    \/ RtFind(p) \/ RtDeleteMany(p) \/ RtFindMany(p) \/ RtPipeline(p)
    \/ RtUpdate(p) \/ RtCache(p)
    \/ \E i \in Presentable : CallLogout(p, i.sessionId)
    \/ \E i \in Presentable : CallLogoutDbDown(p, i.sessionId)
    \/ LoDel(p)

SpecFail == InitFail /\ [][NextFail]_vars

\* only requestCode calls, two in flight at a time
InitSend ==
  /\ InitStores
  /\ procs = AllProcs
  /\ budget = CallsSend

NextSend ==
  \/ \E d \in {CodeTtl, AttemptsTtl} : Wait(d)
  \/ \E p \in AllProcs :
       \/ \E ph \in Phones, c \in Codes : CallSendCode(p, ph, c)
       \/ SvIncr(p) \/ SvExpire(p)

SpecSend == InitSend /\ [][NextSend]_vars

\* only logins, two in flight at a time
InitCap ==
  /\ InitStores
  /\ procs = AllProcs
  /\ budget = CallsCap

NextCap ==
  \/ Tick
  \/ \E p \in AllProcs :
       \/ \E u \in DOMAIN accounts, ip \in IPs : CallLogin(p, u, ip)
       \/ CsCreate(p) \/ CsHash(p) \/ CsCache(p) \/ CsTouch(p)
       \/ CsFind(p) \/ CsEvict(p) \/ CsDel(p)

SpecCap == InitCap /\ [][NextCap]_vars

----------------------------------------------------------------------------
(* Failures of the fast store: a redis call rejects (the connection is     *)
(* lost, the command times out).  `health` = "cachedown" is history: the   *)
(* call met such a failure.                                                *)

\* the awaits on the fast store that follow the durable write in
\* createSession (l.354, l.374), refreshTokens (l.299, and pipeline.exec of
\* invalidateUserSessions, l.398) and logout (l.318)
CacheAwaits == {"cs_cache", "cs_del", "rt_cache", "rt_pipeline", "lo_del"}

\* the redis call p is suspended at rejects: no try/catch surrounds it in
\* createSession (l.353-354, l.373-375), refreshTokens (l.267, l.298-299) or
\* logout (l.318), the rejection leaves the handler as an unhandled error
CacheFails(p) ==
  /\ pc[p] \in CacheAwaits
  /\ Return(p, "Failure", [loc[p] EXCEPT !.health = "cachedown"])
  /\ UNCHANGED <<now, sessions, cache, nextId, issued, retired, procs, config, marketVars, rl,
                 budget, phoneVars>>

\* authenticate whose redis.exists (auth.middleware.ts:26) rejects: the
\* token has been verified; the rejection is taken by the catch at l.49-51,
\* which answers 401 without reading the durable record
AuExistsFails(p) ==
  /\ pc[p] = "au_exists"
  /\ Return(p, "Unauthorized", [loc[p] EXCEPT !.health = "cachedown"])
  /\ UNCHANGED <<now, sessions, cache, nextId, issued, retired, procs, config, marketVars, rl,
                 budget, phoneVars>>

\* authenticate whose redis.set (auth.middleware.ts:41) rejects: the same
\* catch answers 401
AuCacheFails(p) ==
  /\ pc[p] = "au_cache"
  /\ Return(p, "Unauthorized", [loc[p] EXCEPT !.health = "cachedown"])
  /\ UNCHANGED <<now, sessions, cache, nextId, issued, retired, procs, config, marketVars, rl,
                 budget, phoneVars>>

\* one request at a time, the fast store failing at any call and losing
\* keys
InitCacheFail ==
  /\ InitStores
  /\ procs = {1}
  /\ budget = CallsCacheFail

NextCacheFail ==
  \/ \E i \in Presentable : CacheLost(i.sessionId)
  \/ \E p \in AllProcs :
    \/ CacheFails(p)
    \/ AuCacheFails(p)
    \/ \E u \in DOMAIN accounts, ip \in IPs : CallLogin(p, u, ip)
    \/ CsCreate(p) \/ CsHash(p) \/ CsCache(p) \/ CsTouch(p)
    \/ CsFind(p) \/ CsEvict(p) \/ CsDel(p)
    \/ \E i \in Presentable, ip \in IPs : CallRefresh(p, RefreshTokenOf(i), ip)
    \/ RtFind(p) \/ RtDeleteMany(p) \/ RtFindMany(p) \/ RtPipeline(p)
    \/ RtUpdate(p) \/ RtCache(p)
    \/ \E i \in Presentable : CallLogout(p, i.sessionId)
    \/ LoDel(p)
    \/ \E i \in Presentable : CallAuthenticate(p, AccessTokenOf(i))
    \/ AuExists(p) \/ AuExistsFails(p) \/ AuFind(p) \/ AuCache(p)

SpecCacheFail == InitCacheFail /\ [][NextCacheFail]_vars

\* logins, revocations and the gate, one request at a time, the clock
\* running and cache keys getting lost
InitGate ==
  /\ InitStores
  /\ procs = {1}
  /\ budget = CallsGate

NextGate ==
  \/ TickGate
  \/ \E i \in Presentable : CacheLost(i.sessionId)
  \/ \E p \in AllProcs :
       \/ \E u \in DOMAIN accounts, ip \in IPs : CallLogin(p, u, ip)
       \/ CsCreate(p) \/ CsHash(p) \/ CsCache(p) \/ CsTouch(p)
       \/ CsFind(p) \/ CsEvict(p) \/ CsDel(p)
       \/ \E i \in Presentable : CallLogout(p, i.sessionId)
       \/ LoDel(p)
       \/ \E i \in Presentable : CallAuthenticate(p, AccessTokenOf(i))
       \/ AuExists(p) \/ AuFind(p) \/ AuCache(p)

SpecGate == InitGate /\ [][NextGate]_vars

\* requestCode is abandoned between the incr (l.25) and the expire (l.27):
\* redis.expire rejects (nothing catches it, the handler throws), or the
\* process is stopped between the two awaits.  The counter stays as the
\* incr left it.
SvExpireFails(p) ==
  /\ pc[p] = "sv_expire"
  /\ Return(p, "Failure", [loc[p] EXCEPT !.health = "cachedown"])
  /\ UNCHANGED <<now, sessions, cache, nextId, issued, retired, procs, config, marketVars, rl, budget,
                 phoneVars>>

\* only requestCode calls, one at a time, any of which can be abandoned
InitSendFail ==
  /\ InitStores
  /\ procs = {1}
  /\ budget = CallsSendFail

NextSendFail ==
  \/ \E d \in {CodeTtl, AttemptsTtl} : Wait(d)
  \/ \E p \in AllProcs :
       \/ \E ph \in Phones, c \in Codes : CallSendCode(p, ph, c)
       \/ SvIncr(p) \/ SvExpire(p) \/ SvExpireFails(p)

SpecSendFail == InitSendFail /\ [][NextSendFail]_vars

\* admission checks on a healthy store, two in flight at a time: the four
\* commands of two pipelines reach the store in any order that keeps the
\* order within each pipeline (a pipeline is sent in one batch but is not a
\* MULTI/EXEC transaction, so the commands of another connection can run
\* between its commands)
InitGuardConc ==
  /\ InitStores
  /\ procs = AllProcs
  /\ budget = CallsGuardConc

NextGuardConc ==
  \/ Wait(SmsWindow)
  \/ \E p \in AllProcs :
       \/ \E ip \in IPs : CallGuard(p, ip, "up")
       \/ RgZrem(p) \/ RgZcard(p) \/ RgZadd(p) \/ RgExpire(p)

SpecGuardConc == InitGuardConc /\ [][NextGuardConc]_vars

\* admission checks on a healthy store, one at a time, with pauses shorter
\* than the window between them
InitGuardSlide ==
  /\ InitStores
  /\ procs = {1}
  /\ budget = CallsGuardSlide

NextGuardSlide ==
  \/ \E d \in {ShortPause, SmsWindow - 1} : Wait(d)
  \/ \E p \in AllProcs :
       \/ \E ip \in IPs : CallGuard(p, ip, "up")
       \/ RgZrem(p) \/ RgZcard(p) \/ RgZadd(p) \/ RgExpire(p)

SpecGuardSlide == InitGuardSlide /\ [][NextGuardSlide]_vars

\* only requestCode calls, one at a time
InitSendSeq ==
  /\ InitStores
  /\ procs = {1}
  /\ budget = CallsSendSeq

SpecSendSeq == InitSendSeq /\ [][NextSend]_vars

----------------------------------------------------------------------------
(* The other gates that attach an identity from an access token:           *)
(* optionalAuth (auth.middleware.ts:57-78) and the Socket.IO handshake     *)
(* (prisma.plugin.ts:74-103).  `gone` is history: the session named by the *)
(* token had no durable record when the check began.                       *)

\* auth.middleware.ts:69-77: verifyAccessToken; the payload is attached
\* when it verifies, nothing is attached when it throws
CallOptionalAuth(p, tok) ==
  /\ Idle(p)
  /\ LET l == [NoLoc EXCEPT !.op = "optionalAuth", !.tok = tok,
                            !.userId = tok.userId, !.sid = tok.sessionId,
                            !.gone = (tok.sessionId \notin SessionIds)]
     IN IF verifyAccessToken(tok, now) THEN Return(p, "Attached", l)
        ELSE Return(p, "Anonymous", l)
  /\ Spend
  /\ UNCHANGED <<now, sessions, cache, nextId, issued, retired, procs, config, marketVars, rl,
                 phoneVars>>

\* prisma.plugin.ts:74-83: the synchronous head of the handshake:
\* verifyAccessToken
CallSocketAuth(p, tok) ==
  /\ Idle(p)
  /\ LET l == [NoLoc EXCEPT !.op = "socket", !.tok = tok,
                            !.userId = tok.userId, !.sid = tok.sessionId,
                            !.gone = (tok.sessionId \notin SessionIds)]
     IN
     IF ~verifyAccessToken(tok, now) THEN Return(p, "Unauthorized", l)
     ELSE /\ StartCall(p, l)
          /\ Goto(p, "sk_exists")
  /\ Spend
  /\ UNCHANGED <<now, sessions, cache, nextId, issued, retired, procs, config, marketVars, rl,
                 phoneVars>>

\* prisma.plugin.ts:85-86: redis.exists is applied
SkExists(p) ==
  /\ pc[p] = "sk_exists"
  /\ IF CacheExists(loc[p].sid) THEN Return(p, "Ok", loc[p])
     ELSE /\ Goto(p, "sk_find")
          /\ UNCHANGED <<loc, ret>>
  /\ UNCHANGED <<now, sessions, cache, nextId, issued, retired, procs, config, marketVars, rl,
                 budget, phoneVars>>

\* prisma.plugin.ts:87-97: findUnique and the expiry test; the cache is not
\* written
SkFind(p) ==
  /\ pc[p] = "sk_find"
  /\ IF DurableValid(loc[p].sid) THEN Return(p, "Ok", loc[p])
     ELSE Return(p, "Unauthorized", loc[p])
  /\ UNCHANGED <<now, sessions, cache, nextId, issued, retired, procs, config, marketVars, rl,
                 budget, phoneVars>>

\* authenticate as called in the run of the three gates: the same head
\* (auth.middleware.ts:13-25), with `gone` recorded
CallAuthenticateGate(p, tok) ==
  /\ Idle(p)
  /\ LET l == [NoLoc EXCEPT !.op = "authenticate", !.tok = tok,
                            !.userId = tok.userId, !.sid = tok.sessionId,
                            !.gone = (tok.sessionId \notin SessionIds)]
     IN
     IF ~verifyAccessToken(tok, now) THEN Return(p, "Unauthorized", l)
     ELSE /\ StartCall(p, l)
          /\ Goto(p, "au_exists")
  /\ Spend
  /\ UNCHANGED <<now, sessions, cache, nextId, issued, retired, procs, config, marketVars, rl,
                 phoneVars>>

\* revocations and the three gates, one request at a time; sessions leave
\* the durable store by logout only
InitGates ==
  /\ InitStores
  /\ procs = {1}
  /\ budget = CallsGates

NextGates ==
  \/ Tick
  \/ \E i \in issued : CacheLost(i.sessionId)
  \/ \E p \in AllProcs :
       \/ \E i \in issued : CallLogout(p, i.sessionId)
       \/ LoDel(p)
       \/ \E i \in issued : CallAuthenticateGate(p, AccessTokenOf(i))
       \/ AuExists(p) \/ AuFind(p) \/ AuCache(p)
       \/ \E i \in issued : CallOptionalAuth(p, AccessTokenOf(i))
       \/ \E i \in issued : CallSocketAuth(p, AccessTokenOf(i))
       \/ SkExists(p) \/ SkFind(p)

SpecGates == InitGates /\ [][NextGates]_vars

\* logins of both accounts, rotations and revocations, one request at a time
InitScope ==
  /\ InitStores
  /\ procs = {1}
  /\ budget = CallsScope

NextScope ==
  \/ Tick
  \/ \E p \in AllProcs :
       \/ \E u \in DOMAIN accounts, ip \in IPs : CallLogin(p, u, ip)
       \/ CsCreate(p) \/ CsHash(p) \/ CsCache(p) \/ CsTouch(p)
       \/ CsFind(p) \/ CsEvict(p) \/ CsDel(p)
       \/ \E i \in Presentable, ip \in IPs : CallRefresh(p, RefreshTokenOf(i), ip)
       \/ RtFind(p) \/ RtDeleteMany(p) \/ RtFindMany(p) \/ RtPipeline(p)
       \/ RtUpdate(p) \/ RtCache(p)
       \/ \E i \in Presentable : CallLogout(p, i.sessionId)
       \/ LoDel(p)

SpecScope == InitScope /\ [][NextScope]_vars

----------------------------------------------------------------------------
(* OffersService.createOffer and updateOffer  (offers.service.ts:42-118,   *)
(* 184-311).  In the locals, `sid` is the offer id, `n` the listing id and *)
(* `code` the response asked for.                                          *)

\* what the seller can answer: updateOfferSchema (offers.schema.ts:20-24)
\* requires status, and a counterAmount turns the call into a counter-offer
Responses == {"ACCEPTED", "REJECTED", "COUNTER"}

\* the pending offers of a buyer on a listing (l.64-70)
PendingOf(listingId, buyerId) ==
  {o \in DOMAIN offers : /\ offers[o].listingId = listingId
                         /\ offers[o].buyerId = buyerId
                         /\ offers[o].status = "PENDING"}

\* l.44-61: listing.findUnique and the three checks on it
CallCreateOffer(p, buyerId, listingId) ==
  /\ Idle(p)
  /\ LET l == [NoLoc EXCEPT !.op = "createOffer", !.userId = buyerId, !.n = listingId]
     IN IF listingId \notin DOMAIN listings THEN Return(p, "NotFound", l)
        ELSE IF listings[listingId].status # "ACTIVE" THEN Return(p, "BadRequest", l)
        ELSE IF listings[listingId].sellerId = buyerId THEN Return(p, "BadRequest", l)
        ELSE /\ StartCall(p, l)
             /\ Goto(p, "co_findFirst")
  /\ Spend
  /\ UNCHANGED <<now, sessions, cache, nextId, issued, retired, procs, config, rl,
                 phoneVars, marketVars>>

\* l.64-76: offer.findFirst of a pending offer of the buyer on the listing
CoFindFirst(p) ==
  /\ pc[p] = "co_findFirst"
  /\ IF PendingOf(loc[p].n, loc[p].userId) # {}
     THEN Return(p, "Conflict", loc[p])
     ELSE /\ Goto(p, "co_create")
          /\ UNCHANGED <<loc, ret>>
  /\ UNCHANGED <<now, sessions, cache, nextId, issued, retired, procs, config, rl,
                 budget, phoneVars, marketVars>>

\* l.78-98: offer.create with the sellerId of the listing read at l.44 (no
\* operation changes the seller of a listing); the handler emits to the
\* seller's room and waits for notification.create
CoCreate(p) ==
  /\ pc[p] = "co_create"
  /\ LET l == loc[p] IN
     /\ offers' = Append(offers, NewOffer(l.n, l.userId, listings[l.n].sellerId, 0))
     /\ loc' = [loc EXCEPT ![p].sid = Len(offers) + 1]
  /\ Goto(p, "co_notify")
  /\ UNCHANGED <<now, sessions, cache, nextId, issued, retired, ret, procs, config, rl,
                 budget, phoneVars, listings>>

\* l.99-117: notification.create is applied (notification rows are read by
\* nothing modelled here); the offer is returned
CoNotify(p) ==
  /\ pc[p] = "co_notify"
  /\ Return(p, "Ok", loc[p])
  /\ UNCHANGED <<now, sessions, cache, nextId, issued, retired, procs, config, rl,
                 budget, phoneVars, marketVars>>

\* l.185-204: offer.findUnique and the three checks on the row read
CallUpdateOffer(p, offerId, userId, response) ==
  /\ Idle(p)
  /\ LET l == [NoLoc EXCEPT !.op = "updateOffer", !.userId = userId,
                            !.sid = offerId, !.code = response]
     IN IF offerId \notin DOMAIN offers THEN Return(p, "NotFound", l)
        ELSE IF offers[offerId].status # "PENDING" THEN Return(p, "BadRequest", l)
        ELSE IF offers[offerId].sellerId # userId THEN Return(p, "Forbidden", l)
        ELSE /\ StartCall(p, [l EXCEPT !.n = offers[offerId].listingId])
             /\ Goto(p, "uo_update")
  /\ Spend
  /\ UNCHANGED <<now, sessions, cache, nextId, issued, retired, procs, config, rl,
                 phoneVars, marketVars>>

\* l.207-212 and l.256-260: offer.update({where: {id}}) to COUNTERED, or to
\* the status asked for; a rejection ends after the notification
UoUpdate(p) ==
  /\ pc[p] = "uo_update"
  /\ LET l == loc[p] IN
     IF l.code = "COUNTER"
     THEN /\ offers' = [offers EXCEPT ![l.sid].status = "COUNTERED"]
          /\ Goto(p, "uo_counter")
          /\ UNCHANGED <<loc, ret>>
     ELSE /\ offers' = [offers EXCEPT ![l.sid].status = l.code]
          /\ IF l.code = "ACCEPTED"
             THEN Goto(p, "uo_reserve")
             ELSE Goto(p, "uo_notify")
          /\ UNCHANGED <<loc, ret>>
  /\ UNCHANGED <<now, sessions, cache, nextId, issued, retired, procs, config, rl,
                 budget, phoneVars, listings>>

\* l.215-253: offer.create of the counter-offer, with the same buyer and
\* seller and parentOfferId set
UoCounter(p) ==
  /\ pc[p] = "uo_counter"
  /\ LET l == loc[p]
         o == offers[l.sid]
     IN offers' = Append(offers, NewOffer(o.listingId, o.buyerId, o.sellerId, l.sid))
  /\ Goto(p, "uo_notify")
  /\ UNCHANGED <<now, sessions, cache, nextId, issued, retired, loc, ret, procs, config, rl,
                 budget, phoneVars, listings>>

\* l.264-267: listing.update to RESERVED
UoReserve(p) ==
  /\ pc[p] = "uo_reserve"
  /\ listings' = [listings EXCEPT ![loc[p].n].status = "RESERVED"]
  /\ Goto(p, "uo_rejectOthers")
  /\ UNCHANGED <<now, sessions, cache, nextId, issued, retired, loc, ret, procs, config, rl,
                 budget, phoneVars, offers>>

\* l.270-277: offer.updateMany of the other pending offers of the listing to
\* REJECTED; l.280-310: the notification, the offer is returned
UoRejectOthers(p) ==
  /\ pc[p] = "uo_rejectOthers"
  /\ LET l == loc[p] IN
     /\ offers' = [o \in DOMAIN offers |->
                     IF /\ offers[o].listingId = l.n /\ o # l.sid
                        /\ offers[o].status = "PENDING"
                     THEN [offers[o] EXCEPT !.status = "REJECTED"]
                     ELSE offers[o]]
  /\ Goto(p, "uo_notify")
  /\ UNCHANGED <<now, sessions, cache, nextId, issued, retired, loc, ret, procs, config, rl,
                 budget, phoneVars, listings>>

\* l.236-253, l.290-310: notification.create is applied; the (counter-)offer
\* is returned
UoNotify(p) ==
  /\ pc[p] = "uo_notify"
  /\ Return(p, "Ok", loc[p])
  /\ UNCHANGED <<now, sessions, cache, nextId, issued, retired, procs, config, rl,
                 budget, phoneVars, marketVars>>

\* notification.create rejects: neither handler catches, the request is
\* answered 500 and what it wrote before stays written
NotifyFails(p) ==
  /\ pc[p] \in {"co_notify", "uo_notify"}
  /\ Return(p, "Failure", loc[p])
  /\ UNCHANGED <<now, sessions, cache, nextId, issued, retired, procs, config, rl,
                 budget, phoneVars, marketVars>>

----------------------------------------------------------------------------
(* ListingsService.createListing, updateListing and deleteListing          *)
(* (listings.service.ts:176-300).  In the locals, `n` is the listing id    *)
(* and `code` the status asked for.                                        *)

\* listingStatuses (listings.schema.ts:9)
ListingStatuses == {"ACTIVE", "RESERVED", "SOLD", "HIDDEN", "DELETED"}

\* updateListingSchema (listings.schema.ts:59): status is optional
StatusUnset == "<undefined>"

\* the listings the run may hold
MaxListings == 2

\* l.176: createListing is entered with the caller as seller
CallCreateListing(p, sellerId) ==
  /\ Idle(p)
  /\ Len(listings) < MaxListings
  /\ StartCall(p, [NoLoc EXCEPT !.op = "createListing", !.userId = sellerId])
  /\ Goto(p, "cl_create")
  /\ Spend
  /\ UNCHANGED <<now, sessions, cache, nextId, issued, retired, procs, config, rl,
                 phoneVars, marketVars>>

\* l.177-208: listing.create; no status is given, the row takes the column
\* default (ACTIVE, the status createOffer asks of a listing on sale)
ClCreate(p) ==
  /\ pc[p] = "cl_create"
  /\ listings' = Append(listings, [sellerId |-> loc[p].userId, status |-> "ACTIVE"])
  /\ Return(p, "Ok", [loc[p] EXCEPT !.n = Len(listings) + 1])
  /\ UNCHANGED <<now, sessions, cache, nextId, issued, retired, procs, config, rl,
                 budget, phoneVars, offers>>

\* l.216-231: listing.findUnique and the three checks on the row read
CallUpdateListing(p, listingId, sellerId, status) ==
  /\ Idle(p)
  /\ LET l == [NoLoc EXCEPT !.op = "updateListing", !.userId = sellerId,
                            !.n = listingId, !.code = status]
     IN IF listingId \notin DOMAIN listings THEN Return(p, "NotFound", l)
        ELSE IF listings[listingId].sellerId # sellerId THEN Return(p, "Forbidden", l)
        ELSE IF listings[listingId].status = "DELETED" THEN Return(p, "BadRequest", l)
        ELSE /\ StartCall(p, l)
             /\ Goto(p, "ul_update")
  /\ Spend
  /\ UNCHANGED <<now, sessions, cache, nextId, issued, retired, procs, config, rl,
                 phoneVars, marketVars>>

\* l.233-262: listing.update; the status is written when the input has one
\* (l.248), whatever the status of the row and of its offers
UlUpdate(p) ==
  /\ pc[p] = "ul_update"
  /\ LET l == loc[p] IN
     listings' = IF l.code = StatusUnset THEN listings
                 ELSE [listings EXCEPT ![l.n].status = l.code]
  /\ Goto(p, "ul_del")
  /\ UNCHANGED <<now, sessions, cache, nextId, issued, retired, loc, ret, procs, config, rl,
                 budget, phoneVars, offers>>

\* l.265-270: redis.del of the cached listing (a key nothing modelled here
\* reads); the row is returned
UlDel(p) ==
  /\ pc[p] = "ul_del"
  /\ Return(p, "Ok", loc[p])
  /\ UNCHANGED <<now, sessions, cache, nextId, issued, retired, procs, config, rl,
                 budget, phoneVars, marketVars>>

\* l.275-286: listing.findUnique and the two checks on the row read (a
\* deleted listing is not refused)
CallDeleteListing(p, listingId, sellerId) ==
  /\ Idle(p)
  /\ LET l == [NoLoc EXCEPT !.op = "deleteListing", !.userId = sellerId, !.n = listingId]
     IN IF listingId \notin DOMAIN listings THEN Return(p, "NotFound", l)
        ELSE IF listings[listingId].sellerId # sellerId THEN Return(p, "Forbidden", l)
        ELSE /\ StartCall(p, l)
             /\ Goto(p, "dl_update")
  /\ Spend
  /\ UNCHANGED <<now, sessions, cache, nextId, issued, retired, procs, config, rl,
                 phoneVars, marketVars>>

\* l.288-291: listing.update to DELETED
DlUpdate(p) ==
  /\ pc[p] = "dl_update"
  /\ listings' = [listings EXCEPT ![loc[p].n].status = "DELETED"]
  /\ Goto(p, "dl_cancel")
  /\ UNCHANGED <<now, sessions, cache, nextId, issued, retired, loc, ret, procs, config, rl,
                 budget, phoneVars, offers>>

\* l.294-297: offer.updateMany of the pending offers of the listing to
\* CANCELLED
DlCancel(p) ==
  /\ pc[p] = "dl_cancel"
  /\ offers' = [o \in DOMAIN offers |->
                  IF offers[o].listingId = loc[p].n /\ offers[o].status = "PENDING"
                  THEN [offers[o] EXCEPT !.status = "CANCELLED"]
                  ELSE offers[o]]
  /\ Goto(p, "dl_del")
  /\ UNCHANGED <<now, sessions, cache, nextId, issued, retired, loc, ret, procs, config, rl,
                 budget, phoneVars, listings>>

\* l.299: redis.del of the cached listing; nothing is returned
DlDel(p) ==
  /\ pc[p] = "dl_del"
  /\ Return(p, "Ok", loc[p])
  /\ UNCHANGED <<now, sessions, cache, nextId, issued, retired, procs, config, rl,
                 budget, phoneVars, marketVars>>

\* l.265, l.299: redis.del rejects: neither handler catches, the request is
\* answered 500 and what it wrote before stays written
ListingCacheFails(p) ==
  /\ pc[p] \in {"ul_del", "dl_del"}
  /\ Return(p, "Failure", loc[p])
  /\ UNCHANGED <<now, sessions, cache, nextId, issued, retired, procs, config, rl,
                 budget, phoneVars, marketVars>>

\* the offer and listing workflow, two requests in flight at a time
InitOffers ==
  /\ InitStores
  /\ procs = AllProcs
  /\ budget = CallsOffers

NextOffers ==
  \E p \in AllProcs :
    \/ \E b \in Buyers \cup {Seller}, li \in DOMAIN listings : CallCreateOffer(p, b, li)
    \/ CoFindFirst(p) \/ CoCreate(p) \/ CoNotify(p)
    \/ \E o \in DOMAIN offers, u \in Buyers \cup {Seller}, r \in Responses :
         CallUpdateOffer(p, o, u, r)
    \/ UoUpdate(p) \/ UoCounter(p) \/ UoReserve(p) \/ UoRejectOthers(p)
    \/ UoNotify(p) \/ NotifyFails(p)
    \/ \E u \in Buyers \cup {Seller} : CallCreateListing(p, u)
    \/ ClCreate(p)
    \/ \E li \in DOMAIN listings, u \in Buyers \cup {Seller},
          st \in ListingStatuses \cup {StatusUnset} : CallUpdateListing(p, li, u, st)
    \/ UlUpdate(p) \/ UlDel(p)
    \/ \E li \in DOMAIN listings, u \in Buyers \cup {Seller} : CallDeleteListing(p, li, u)
    \/ DlUpdate(p) \/ DlCancel(p) \/ DlDel(p)
    \/ ListingCacheFails(p)

SpecOffers == InitOffers /\ [][NextOffers]_vars

\* the same workflow, one request at a time
InitOffersSeq ==
  /\ InitStores
  /\ procs = {1}
  /\ budget = CallsOffersSeq

SpecOffersSeq == InitOffersSeq /\ [][NextOffers]_vars

----------------------------------------------------------------------------
(* Properties.                                                             *)

AllIdle == \A p \in AllProcs : pc[p] = "idle"

Finished(p, op) == pc[p] = "idle" /\ ret[p].op = op

CsLabels == {"cs_create", "cs_hash", "cs_cache", "cs_touch", "cs_find",
             "cs_evict", "cs_del"}

\* the cache keys that name account u as the owner
CachedOf(u) == {s \in DOMAIN cache : CacheExists(s) /\ cache[s].userId = u}

\* C1: after a rotation has failed with SessionCompromised because the
\* presented token had been superseded by an earlier successful rotation,
\* no session of that account has a durable record or a cache entry
\* (isValid is false for all of them).  One request at a time: the state
\* is the one the failed call left.
C1_ReuseInvalidatesAccount ==
  \A p \in AllProcs :
    (Finished(p, "refresh") /\ ret[p].status = "SessionCompromised" /\ ret[p].stale)
      => /\ SessionsOf(ret[p].userId) = {}
         /\ CachedOf(ret[p].userId) = {}

\* C2: a refresh token that a successful rotation has replaced never again
\* obtains a token pair: a rotation that begins after that rotation has
\* returned, presenting the same token, does not succeed.
C2_RotatedAwayUnusable ==
  \A p \in AllProcs :
    (Finished(p, "refresh") /\ ret[p].stale) => ret[p].status # "Ok"

\* C3: the refresh token a successful rotation returns differs from the
\* refresh token it replaced (tokens of one session are pairwise distinct),
\* whatever the clock reads when the rotation is made.
C3_RotationYieldsFreshToken ==
  \A p \in AllProcs :
    (Finished(p, "refresh") /\ ret[p].status = "Ok") => ret[p].newTok # ret[p].tok

\* C4: of two rotations that race on the same still-valid refresh token, at
\* most one returns a token pair.
C4_SingleUseUnderRace ==
  ~ \E p, q \in AllProcs :
       /\ p # q
       /\ Finished(p, "refresh") /\ Finished(q, "refresh")
       /\ ret[p].tok = ret[q].tok
       /\ ret[p].raced /\ ret[q].raced
       /\ ret[p].status = "Ok" /\ ret[q].status = "Ok"

\* C5: whenever no operation is in progress, every cache entry session:X has
\* a durable session record X.
C5_CacheImpliesDurable ==
  AllIdle => \A s \in DOMAIN cache : CacheExists(s) => s \in SessionIds

\* C6: with one request at a time, the step on which createSession returns
\* leaves isValid true for the session it created, and the step on which
\* revoke returns leaves isValid false for the session revoked, whatever the
\* cache held before.
C6_ValidAfterCreateInvalidAfterRevoke ==
  [][\A p \in AllProcs : \A id \in 1..nextId :
       (pc[p] # "idle" /\ pc'[p] = "idle" /\ ret'[p].status = "Ok"
          /\ loc[p].sid = id) =>
          /\ (loc[p].op = "login" => IsValid(id)')
          /\ (loc[p].op = "logout" => ~IsValid(id)')]_vars

\* a session created in the run has been revoked and isValid is false for it
C6_Witness ==
  \E p \in AllProcs :
    /\ Finished(p, "logout") /\ ret[p].sid > Preloaded
    /\ ret[p].sid <= nextId /\ ~IsValid(ret[p].sid)

\* C7: an account for which no createSession is in progress has at most 5
\* durable sessions, over all interleavings of concurrent createSession calls.
C7_SessionCap ==
  \A u \in DOMAIN accounts :
    (\A p \in AllProcs : ~(pc[p] \in CsLabels /\ loc[p].userId = u))
      => Cardinality(SessionsOf(u)) <= MaxSessionsPerUser

\* two createSession calls for account 1 have ended, rows were evicted and
\* the account holds exactly the cap
C7_Witness ==
  /\ AllIdle
  /\ \A p \in AllProcs : ret[p].op = "login" /\ ret[p].status = "Ok" /\ ret[p].userId = 1
  /\ nextId >= Preloaded + 2
  /\ Cardinality(SessionsOf(1)) = MaxSessionsPerUser

\* the n most recently created among the rows S, read off createdAt alone
MostRecent(S, n) ==
  {s \in S : Cardinality({r \in S : sessions[r].createdAt > sessions[s].createdAt}) < n}

\* C8: with one request at a time, the rows createSession is about to delete
\* are exactly those outside the account's 5 most recently created, and once
\* deleted the account holds exactly its 5 most recent rows, the new one
\* among them.
C8_EvictsOldestByCreation ==
  \A p \in AllProcs :
    LET u == loc[p].userId
        S == SessionsOf(u)
        L == Range(loc[p].list)
    IN /\ pc[p] = "cs_evict" =>
            /\ L = S \ MostRecent(S, MaxSessionsPerUser)
            /\ loc[p].sid \in S \ L
       /\ pc[p] = "cs_del" =>
            /\ Cardinality(S) = MaxSessionsPerUser
            /\ loc[p].sid \in S
            /\ L \cap S = {}

\* an eviction has removed the oldest row of account 1 and the new session
\* is retained
C8_Witness ==
  \E p \in AllProcs :
    /\ pc[p] = "cs_del" /\ loc[p].userId = 1
    /\ Range(loc[p].list) # {} /\ Range(loc[p].list) \cap SessionIds = {}
    /\ loc[p].sid \in SessionsOf(1) /\ loc[p].sid > Preloaded

\* C9: with one request at a time, a verifyCode presenting the code last
\* sent to the phone, unexpired and not yet used, succeeds; a verifyCode
\* presenting a code that has been used since it was sent fails with
\* InvalidCredential (until requestCode stores a code again).
C9_CodeSingleUseInSequence ==
  \A p \in AllProcs :
    Finished(p, "verify") =>
      /\ (ret[p].fresh => ret[p].status = "Ok")
      /\ (ret[p].stale => ret[p].status = "InvalidCredential")

\* the code has been used once and its second presentation was refused
C9_Witness ==
  \E p \in AllProcs :
    /\ Finished(p, "verify") /\ ret[p].stale
    /\ ret[p].status = "InvalidCredential"
    /\ lastSent[ret[p].phone].used

\* C10: of the verifyCode calls that present the same correct code for the
\* same phone, only one succeeds: a call that finds the code already used by
\* another call does not yield a session.
C10_CodeSingleUseUnderRace ==
  \A p \in AllProcs :
    (Finished(p, "verify") /\ ret[p].raced) => ret[p].status # "Ok"

\* C11: a requestCode returns success exactly when it is among the first five
\* requests counted for its phone in the hour that began with the first of
\* them, and RateLimited exactly when it is the sixth or a later one; the
\* place of a request is counted per phone, so other phones do not matter.
C11_SendLimitPerPhone ==
  \A p \in AllProcs :
    Finished(p, "sendCode") =>
      /\ ret[p].rank >= 1
      /\ (ret[p].status = "Ok") = (ret[p].rank <= MaxSendAttempts)
      /\ (ret[p].status = "RateLimited") = (ret[p].rank > MaxSendAttempts)

\* the sixth request of a phone's hour was refused while the other phone,
\* asked for the first time in that hour, was served
C11_Witness ==
  \E p \in AllProcs : \E other \in Phones \ {ret[p].phone} :
    /\ Finished(p, "sendCode") /\ ret[p].status = "RateLimited"
    /\ ret[p].rank = MaxSendAttempts + 1
    /\ lastSent[other].winCount = 1
    /\ other \in DOMAIN attempts /\ attempts[other].n = 1

\* the values of identity column f held by more than one account
Shared(f) ==
  {accounts[a][f] : a \in DOMAIN accounts} \cap
    {v \in {accounts[a][f] : a \in DOMAIN accounts} :
       v # "" /\ Cardinality({a \in DOMAIN accounts : accounts[a][f] = v}) > 1}

\* C12: in every state each phone number, email, Google subject id and Apple
\* subject id belongs to at most one account, over all interleavings of the
\* three sign-in paths.
C12_IdentityUnique ==
  \A f \in {"phone", "email", "googleId", "appleId"} : Shared(f) = {}

\* two concurrent first-time Google sign-ins with the same subject id have
\* ended: one created the account, the other was refused by the store
C12_Witness ==
  \E p, q \in AllProcs :
    /\ p # q /\ Finished(p, "google") /\ Finished(q, "google")
    /\ ret[p].sub = ret[q].sub /\ ret[p].isNew /\ ret[q].isNew
    /\ ret[p].status = "Ok" /\ ret[p].created
    /\ ret[q].status = "Conflict"
    /\ Cardinality(FindByGoogleId(ret[p].sub)) = 1

\* C13: a first-time Google or Apple sign-in whose token carries the email
\* of an existing account succeeds, resolves to that account, records the
\* provider's subject id and badge on it and creates no account.
C13_EmailLinkingBothProviders ==
  \A p \in AllProcs :
    ((Finished(p, "google") \/ Finished(p, "apple")) /\ ret[p].hintOwner # 0) =>
      /\ ret[p].status = "Ok"
      /\ ret[p].userId = ret[p].hintOwner
      /\ ~ret[p].created
      /\ LET acc == accounts[ret[p].hintOwner] IN
         IF ret[p].op = "google"
         THEN acc.googleId = ret[p].sub /\ "GOOGLE" \in acc.verifiedBadges
         ELSE acc.appleId = ret[p].sub /\ "APPLE" \in acc.verifiedBadges

\* C14: a successful sign-in reports isNewUser true exactly when the call
\* inserted an account row.
C14_NewAccountFlagExact ==
  \A p \in AllProcs :
    ((Finished(p, "verify") \/ Finished(p, "google") \/ Finished(p, "apple"))
       /\ ret[p].status = "Ok") => (ret[p].isNew = ret[p].created)

\* C15: with one request at a time, revoke returns without error and leaves
\* the session with neither a durable record nor a cache entry, also when
\* the record was already gone; a revoke of a session that has neither
\* changes nothing in either store.
C15_RevokeIdempotent ==
  /\ [](\A p \in AllProcs :
          Finished(p, "logout") =>
            /\ ret[p].status = "Ok"
            /\ ret[p].sid \notin SessionIds
            /\ ret[p].sid \notin DOMAIN cache)
  /\ [][\A p \in AllProcs :
          /\ (pc[p] = "idle" /\ pc'[p] = "lo_del" /\ ~loc'[p].found)
               => sessions' = sessions /\ cache' = cache
          /\ (pc[p] = "lo_del" /\ pc'[p] = "idle" /\ ~loc[p].found
                /\ loc[p].sid \notin DOMAIN cache)
               => sessions' = sessions /\ cache' = cache /\ ret'[p].status = "Ok"]_vars

\* a session created in the run was revoked, and a second revoke of it, which
\* found no record, has returned
C15_Witness ==
  \E p \in AllProcs :
    /\ Finished(p, "logout") /\ ~ret[p].found /\ ret[p].status = "Ok"
    /\ ret[p].sid > Preloaded /\ ret[p].sid \notin SessionIds

\* C16: with one request at a time, a rotation presenting a verified,
\* unexpired refresh token whose session has no durable record fails with
\* SessionCompromised and leaves the account named in the token without any
\* durable session record.
C16_MissingRecordIsReuse ==
  \A p \in AllProcs :
    (Finished(p, "refresh") /\ ret[p].gone) =>
      /\ ret[p].status = "SessionCompromised"
      /\ SessionsOf(ret[p].userId) = {}

\* the token of a revoked session was presented while the account still had
\* other sessions, and the rotation ended in SessionCompromised
C16_Witness ==
  \E p \in AllProcs :
    /\ Finished(p, "refresh") /\ ret[p].gone /\ ~ret[p].stale
    /\ ret[p].status = "SessionCompromised"
    /\ ret[p].userId = 1 /\ SessionsOf(1) = {}
    /\ ret[p].sid \in PreloadedIds

\* this step is the loss of a cache key, not a call: no result is written
KeyLostStep == DOMAIN cache' # DOMAIN cache /\ ret' = ret /\ pc' = pc

\* a refresh call by p begins on this step (a call spends budget and either
\* suspends with its locals set or ends with its result written)
BeginsRefresh(p) ==
  /\ pc[p] = "idle" /\ budget' # budget /\ ~KeyLostStep
  /\ \/ pc'[p] # "idle" /\ loc'[p].op = "refresh"
     \/ pc'[p] = "idle" /\ ret'[p].op = "refresh"

\* the token presented by the refresh call that begins on this step
PresentedNow(p) == IF pc'[p] = "idle" THEN ret'[p].tok ELSE loc'[p].tok

\* the token is not signed with the refresh secret, or its expiry has come
FailsVerification(tok) == tok.sig # config.refreshSecret \/ now >= tok.exp

\* C17: a rotation presenting a token that is expired, malformed or signed
\* with another key ends at once with InvalidRefreshToken (never with
\* SessionCompromised) and changes neither the durable store nor the cache.
C17_InvalidTokenTouchesNothing ==
  [][\A p \in AllProcs :
       (BeginsRefresh(p) /\ FailsVerification(PresentedNow(p))) =>
          /\ pc'[p] = "idle"
          /\ ret'[p].status = "InvalidRefreshToken"
          /\ sessions' = sessions /\ cache' = cache /\ accounts' = accounts]_vars

\* an expired refresh token of a live account was presented and refused
C17_Witness ==
  \E p \in AllProcs :
    /\ Finished(p, "refresh") /\ ret[p].status = "InvalidRefreshToken"
    /\ ret[p].tok.sig = config.refreshSecret /\ now >= ret[p].tok.exp
    /\ ret[p].tok.sessionId \in SessionIds

\* C18: a rotation presenting an access token the server issued never returns
\* a pair, and the gate never accepts a refresh token the server issued,
\* whatever admissible values the two secrets have.
C18_TokenKindsNotInterchangeable ==
  \A p \in AllProcs :
    /\ (Finished(p, "refresh") /\ ret[p].tok \in {AccessTokenOf(i) : i \in issued})
         => ret[p].status # "Ok"
    /\ (Finished(p, "authenticate") /\ ret[p].tok \in {RefreshTokenOf(i) : i \in issued})
         => ret[p].status # "Ok"

\* C19: an admission check that meets a failing fast store (exec() rejects,
\* or the commands come back with errors so that no count is read) lets the
\* request through and is not answered RateLimited.
C19_GuardFailsOpen ==
  \A p \in AllProcs :
    (Finished(p, "guard") /\ ret[p].health # "up") => ret[p].status = "Admitted"

\* the key holds the limit's worth of requests of the current window, and a
\* check that met a failing store has let one more through
C19_Witness ==
  \E p \in AllProcs :
    /\ Finished(p, "guard") /\ ret[p].health # "up" /\ ret[p].status = "Admitted"
    /\ Len(Scores(ret[p].ip)) >= SmsMax
    /\ \A i \in 1..Len(Scores(ret[p].ip)) : Scores(ret[p].ip)[i] + SmsWindow > now

\* C20: a createSession, rotate or revoke during which a call on the durable
\* store failed ends in a failure, and a revoke that returns success leaves
\* no durable record of the session.
C20_DurableFailureNeverSuccess ==
  \A p \in AllProcs :
    /\ ((Finished(p, "login") \/ Finished(p, "refresh") \/ Finished(p, "logout"))
          /\ ret[p].health = "dbdown") => ret[p].status = "Failure"
    /\ (Finished(p, "logout") /\ ret[p].status = "Ok") => ret[p].sid \notin SessionIds

\* C21: a createSession, rotate or revoke whose call on the fast store
\* failed after the durable write still completes successfully, and such a
\* rotate returns the pair whose hash it has stored.
C21_CacheFailureNonFatal ==
  \A p \in AllProcs :
    ((Finished(p, "login") \/ Finished(p, "refresh") \/ Finished(p, "logout"))
       /\ ret[p].health = "cachedown") => ret[p].status = "Ok"

\* C22: an authenticate whose cache read failed, presenting an access token
\* that verifies for a session whose durable record exists and has not
\* expired, is accepted.
C22_CacheReadFailureFallsBack ==
  \A p \in AllProcs :
    (/\ Finished(p, "authenticate") /\ ret[p].health = "cachedown"
     /\ verifyAccessToken(ret[p].tok, now)
     /\ DurableValid(ret[p].sid)) => ret[p].status = "Ok"

\* C23: whenever a rotate returns a pair for a session that has a durable
\* record, and no createSession or rotate on that session is still in
\* progress, the stored hash is the hash of the refresh token just returned
\* (the one most recently returned for the session), over every interleaving
\* of rotate calls.
C23_StoredHashIsLastReturned ==
  [][\A p \in AllProcs :
       (/\ pc[p] = "rt_cache" /\ pc'[p] = "idle" /\ ret'[p].status = "Ok"
        /\ ret'[p].sid \in DOMAIN sessions'
        /\ ~(\E q \in AllProcs \ {p} :
               pc'[q] \in {"cs_hash", "cs_cache", "rt_update", "rt_cache"}
               /\ loc'[q].sid = ret'[p].sid))
       => sessions'[ret'[p].sid].refreshTokenHash = hashToken(ret'[p].newTok)]_vars

\* C24: once no call is in progress (every createSession or rotate has
\* returned or has been abandoned with a failure), no durable session holds
\* the placeholder (empty) hash or a hash that is not the hash of a refresh
\* token the server signed for that session.
C24_NoHalfWrittenSession ==
  AllIdle =>
    \A s \in SessionIds :
      /\ sessions[s].refreshTokenHash # EmptyHash
      /\ \E t \in 0..MaxClock :
           sessions[s].refreshTokenHash =
             hashToken(generateRefreshToken(sessions[s].userId, s, t))

\* C25: the session check of the gate is cache-first.  With a cache entry it
\* accepts at once and reads nothing else; on a miss it goes to the durable
\* store and accepts iff a record exists whose expiry has not passed; when
\* it accepts after a miss it writes a cache entry whose TTL is the remaining
\* lifetime of the record it read, in whole seconds (nothing when less than
\* a whole second remains); when it refuses it writes nothing.
C25_CacheFirstDurableFallback ==
  [][\A p \in AllProcs :
       /\ (pc[p] = "au_exists" /\ pc'[p] # "au_exists")
            => /\ sessions' = sessions /\ cache' = cache
               /\ IF loc[p].sid \in DOMAIN cache
                  THEN pc'[p] = "idle" /\ ret'[p].status = "Ok"
                  ELSE pc'[p] = "au_find"
       /\ (pc[p] = "au_find" /\ pc'[p] # "au_find")
            => LET s == loc[p].sid
                   live == s \in DOMAIN sessions /\ sessions[s].expiresAt >= now
               IN /\ sessions' = sessions /\ cache' = cache
                  /\ (pc'[p] = "idle" /\ ret'[p].status = "Unauthorized") <=> ~live
                  /\ live =>
                       IF sessions[s].expiresAt > now
                       THEN /\ pc'[p] = "au_cache"
                            /\ loc'[p].ttl = sessions[s].expiresAt - now
                            /\ loc'[p].userId = sessions[s].userId
                       ELSE pc'[p] = "idle" /\ ret'[p].status = "Ok"
       /\ (pc[p] = "au_cache" /\ pc'[p] # "au_cache")
            => /\ pc'[p] = "idle" /\ ret'[p].status = "Ok"
               /\ sessions' = sessions
               /\ cache' = [k \in DOMAIN cache \cup {loc[p].sid} |->
                              IF k = loc[p].sid
                              THEN [userId |-> loc[p].userId, exp |-> now + loc[p].ttl]
                              ELSE cache[k]]]_vars

\* a gate check with an access token that verifies has missed the cache,
\* found a record whose expiry has passed, refused, and written nothing
C25_Witness ==
  \E p \in AllProcs :
    /\ Finished(p, "authenticate") /\ ret[p].status = "Unauthorized"
    /\ verifyAccessToken(ret[p].tok, now)
    /\ ret[p].sid \in SessionIds /\ sessions[ret[p].sid].expiresAt < now
    /\ ret[p].sid \notin DOMAIN cache

\* C26: every cache entry of a session that has a durable record expires no
\* later than the record, and the session check never answers true for a
\* session whose durable expiry has passed.
C26_CacheNeverOutlivesSession ==
  \A s \in DOMAIN cache \cap SessionIds :
    /\ cache[s].exp <= sessions[s].expiresAt
    /\ IsValid(s) => sessions[s].expiresAt >= now

\* C27: after a createSession has returned, every session it evicted for the
\* cap (`evicted` is history: the ids it sliced off) has neither a durable
\* record nor a cache entry, and the session check is false for it.  One
\* request at a time.
C27_EvictionRemovesFromBothStores ==
  \A p \in AllProcs :
    (Finished(p, "login") /\ ret[p].status = "Ok") =>
      \A s \in ret[p].evicted :
        s \notin SessionIds /\ s \notin DOMAIN cache /\ ~IsValid(s)

\* a login has evicted a session whose cache entry had not run out
C27_Witness ==
  \E p \in AllProcs :
    /\ Finished(p, "login") /\ ret[p].status = "Ok"
    /\ ret[p].evicted # {} /\ ret[p].evicted \subseteq PreloadedIds
    /\ now < RefreshExpSec
    /\ Cardinality(SessionsOf(ret[p].userId)) = MaxSessionsPerUser

\* C28: a rotate that succeeds changes nothing but the hash, expiry and ip
\* of the target session and that session's cache entry.  Its update step
\* leaves the set of durable sessions, the target's id, owner and creation
\* time, every other durable record, the cache and the accounts as they
\* were; its cache step leaves the durable store, every other cache entry
\* and the accounts as they were.
C28_RotateFrame ==
  [][\A p \in AllProcs :
       /\ (pc[p] = "rt_update" /\ pc'[p] = "rt_cache") =>
            LET s == loc[p].sid IN
            /\ DOMAIN sessions' = DOMAIN sessions
            /\ \A o \in DOMAIN sessions \ {s} : sessions'[o] = sessions[o]
            /\ sessions'[s].userId = sessions[s].userId
            /\ sessions'[s].createdAt = sessions[s].createdAt
            /\ sessions'[s].refreshTokenHash = hashToken(loc'[p].newTok)
            /\ sessions'[s].ipAddress = loc[p].ip
            /\ sessions'[s].expiresAt = loc[p].at + RefreshExpSec
            /\ cache' = cache /\ accounts' = accounts
       /\ (pc[p] = "rt_cache" /\ pc'[p] = "idle" /\ ret'[p].status = "Ok") =>
            LET s == loc[p].sid IN
            /\ sessions' = sessions /\ accounts' = accounts
            /\ DOMAIN cache' = DOMAIN cache \cup {s}
            /\ \A o \in DOMAIN cache \ {s} : cache'[o] = cache[o]
            /\ cache'[s].userId = sessions[s].userId]_vars

\* a rotate has returned a new pair for one of several sessions of an
\* account: the row holds the new hash and the presented ip, and the other
\* sessions are all there
C28_Witness ==
  \E p \in AllProcs :
    /\ Finished(p, "refresh") /\ ret[p].status = "Ok"
    /\ ret[p].newTok # ret[p].tok
    /\ ret[p].sid \in SessionIds /\ ret[p].sid \in DOMAIN cache
    /\ sessions[ret[p].sid].refreshTokenHash = hashToken(ret[p].newTok)
    /\ SessionsOf(ret[p].userId) = PreloadedIds
    /\ \A o \in PreloadedIds \ {ret[p].sid} :
         sessions[o].refreshTokenHash # hashToken(ret[p].newTok)

\* a verifyCode call by p begins on this step
BeginsVerify(p) ==
  /\ pc[p] = "idle" /\ budget' # budget /\ now' = now
  /\ \/ pc'[p] # "idle" /\ loc'[p].op = "verify"
     \/ pc'[p] = "idle" /\ ret'[p].op = "verify"

\* the phone and the code presented by the call that begins on this step
VerifiedPhone(p) == IF pc'[p] = "idle" THEN ret'[p].phone ELSE loc'[p].phone
VerifiedCode(p) == IF pc'[p] = "idle" THEN ret'[p].code ELSE loc'[p].code

\* C29: a verifyCode fails with InvalidCredential at once exactly when the
\* phone has no stored challenge (never requested, used, or run out after 5
\* minutes) or the presented code differs from the stored one; such a call
\* creates or changes no account and no session and leaves the fast store,
\* the stored challenge included, as it was, so that the correct code is
\* still taken afterwards.
C29_FailedVerifyChangesNothing ==
  [][\A p \in AllProcs :
       BeginsVerify(p) =>
         LET ph == VerifiedPhone(p)
             bad == ph \notin DOMAIN codes \/ codes[ph].code # VerifiedCode(p)
         IN /\ bad <=> (pc'[p] = "idle" /\ ret'[p].status = "InvalidCredential")
            /\ ~bad => pc'[p] = "vp_del"
            /\ bad => /\ accounts' = accounts /\ sessions' = sessions
                      /\ cache' = cache /\ codes' = codes
                      /\ attempts' = attempts]_vars

\* a wrong code was refused while the challenge of the phone was live, and
\* the challenge is still stored, unused
C29_Witness ==
  \E p \in AllProcs :
    /\ Finished(p, "verify") /\ ret[p].status = "InvalidCredential"
    /\ ret[p].phone \in DOMAIN codes
    /\ codes[ret[p].phone].code # ret[p].code
    /\ codes[ret[p].phone].code = lastSent[ret[p].phone].code
    /\ ~lastSent[ret[p].phone].used

\* C30: once no requestCode is in progress (each has returned or has been
\* abandoned), every attempt counter in the fast store carries an expiry,
\* and that expiry is at most AttemptsTtl after the first attempt of the
\* counter's window: no lockout lasts for ever.
C30_LockoutAlwaysEnds ==
  AllIdle =>
    \A ph \in DOMAIN attempts :
      /\ attempts[ph].hasTtl
      /\ attempts[ph].exp <= lastSent[ph].winStart + AttemptsTtl

\* the requests let through on key in the span of SmsWindow seconds that
\* ends with the i-th of them
AdmittedInSpan(key, i) ==
  {j \in 1..Len(rl[key].admits) :
     /\ rl[key].admits[j] <= rl[key].admits[i]
     /\ rl[key].admits[j] + SmsWindow > rl[key].admits[i]}

\* C31: on a healthy store the guard lets through at most SmsMax requests of
\* a key within any span of SmsWindow seconds, however the admission checks
\* for the key interleave.
C31_GuardBoundsAdmissions ==
  \A key \in DOMAIN rl :
    \A i \in 1..Len(rl[key].admits) :
      Cardinality(AdmittedInSpan(key, i)) <= SmsMax

\* C32: the guard counts in a fixed window that begins with the first
\* attempt: a request made more than SmsWindow seconds after the first
\* attempt of the key's window is let through, however many attempts were
\* made in between.
C32_GuardFixedWindowResets ==
  \A p \in AllProcs :
    (Finished(p, "guard") /\ ret[p].health = "up" /\ ret[p].fresh)
       => ret[p].status = "Admitted"

\* C33: a requestCode that is answered RateLimited leaves the challenge of
\* the phone as it was when the call began (`prior` is history: the code
\* stored for the phone at that moment): the code stored by the last
\* successful requestCode is still the one stored.
C33_RateLimitedKeepsChallenge ==
  [][\A p \in AllProcs :
       (/\ pc[p] \in {"sv_incr", "sv_expire"} /\ pc'[p] = "idle"
        /\ ret'[p].status = "RateLimited" /\ loc[p].prior # "")
       => /\ loc[p].phone \in DOMAIN codes'
          /\ codes'[loc[p].phone].code = loc[p].prior]_vars

\* C34: an external identifier an account has (Google subject id, Apple
\* subject id, phone) is never changed to another value by an
\* authentication call.
C34_LinkNeverOverwritten ==
  [][\A a \in DOMAIN accounts :
       /\ a \in DOMAIN accounts'
       /\ accounts[a].googleId # "" => accounts'[a].googleId = accounts[a].googleId
       /\ accounts[a].appleId # "" => accounts'[a].appleId = accounts[a].appleId
       /\ accounts[a].phone # "" => accounts'[a].phone = accounts[a].phone]_vars

\* C35: once the revoke of a session has completed, an unexpired access
\* token of that session yields no attached identity at any gate:
\* authenticate, optionalAuth and the socket handshake all refuse it.
C35_EveryGateHonoursRevocation ==
  \A p \in AllProcs :
    (/\ Finished(p, "authenticate") \/ Finished(p, "optionalAuth")
          \/ Finished(p, "socket")
     /\ ret[p].gone)
      => ret[p].status \notin {"Ok", "Attached"}

\* the durable records and the cache entries outside the set S of sessions
\* are after this step what they were before it
OthersUntouched(S) ==
  /\ DOMAIN sessions' \subseteq DOMAIN sessions
  /\ DOMAIN cache' \subseteq DOMAIN cache
  /\ \A s \in DOMAIN sessions \ S : s \in DOMAIN sessions' /\ sessions'[s] = sessions[s]
  /\ \A k \in DOMAIN cache \ S : k \in DOMAIN cache' /\ cache'[k] = cache[k]

\* the sessions account a owns in either store
OwnedBy(a) ==
  {s \in DOMAIN sessions : sessions[s].userId = a}
    \cup {k \in DOMAIN cache : cache[k].userId = a}

\* C36: the steps of a reuse event on account A delete only sessions owned
\* by A, and the steps of revoke(sessionId) delete only that session: the
\* durable record and the cache entry of every other session are unchanged.
C36_ReuseAndRevokeAreScoped ==
  [][\A p \in AllProcs :
       /\ (pc[p] \in {"rt_deleteMany", "rt_findMany", "rt_pipeline"} /\ pc'[p] # pc[p])
            => OthersUntouched(OwnedBy(loc[p].userId))
       /\ (pc[p] = "idle" /\ pc'[p] = "lo_del")
            => OthersUntouched({loc'[p].sid})
       /\ (pc[p] = "lo_del" /\ pc'[p] = "idle")
            => OthersUntouched({loc[p].sid})]_vars

\* a reuse event has emptied account 1 while a session of account 2, logged
\* in during the run, is still in both stores
C36_Witness ==
  \E p \in AllProcs : \E s \in SessionIds :
    /\ Finished(p, "refresh") /\ ret[p].status = "SessionCompromised"
    /\ ret[p].userId = 1 /\ SessionsOf(1) = {}
    /\ sessions[s].userId = 2 /\ s \in DOMAIN cache /\ cache[s].userId = 2

\* the accepted offers of a listing
AcceptedOf(listingId) ==
  {o \in DOMAIN offers : offers[o].listingId = listingId /\ offers[o].status = "ACCEPTED"}

\* C37: a listing never has more than one offer in status ACCEPTED, and an
\* offer that is not PENDING never changes status again, however the
\* createOffer and updateOffer calls interleave.
C37_OfferWorkflow ==
  /\ [](\A li \in DOMAIN listings : Cardinality(AcceptedOf(li)) <= 1)
  /\ [][\A o \in DOMAIN offers :
          offers[o].status # "PENDING" => offers'[o].status = offers[o].status]_vars

====
